---------------------------- MODULE Spec2Model ----------------------------
(***************************************************************************)
(* rsym (sdk/tools/rsym/rsym.c): conversion of the STABS / COFF debug      *)
(* information of a PE image into the sorted .rossym line table.           *)
(*                                                                         *)
(* C arrays are modelled as sequences; index i of the C array is element   *)
(* i + 1 of the sequence.  Characters are one-character strings, the       *)
(* terminating byte of a C string is NUL.                                  *)
(***************************************************************************)
EXTENDS Integers, Sequences, FiniteSets, TLC

VARIABLES
    pc,             \* position of main() (or of the component under study)
    FileData,       \* the input image
    exit,           \* exit status of the process, "running" before it ends
    UseDbgHelp,     \* main's flag: the rows come from the line iterator
    StringsBase,    \* the string blob (StringBase / StringsLength of main)
    StringsCapacity, \* bytes allocated for the blob
    StringHash,     \* struct StringHashTable of the running decoder
    intern,         \* the last FindOrAddString call: argument, result, blob before
    StabSymbols,    \* rows of ConvertStabs / ConvertDbgHelp
    CoffSymbols,    \* rows of ConvertCoffs
    MergedSymbols,  \* rows of MergeStabsAndCoffs
    merge,          \* bookkeeping of the last MergeStabsAndCoffs call
    RosSymSection,  \* the .rossym blob main builds (RosSymLength, RosSymSection)
    OutFile         \* what CreateOutputFile wrote, NoFile before

vars == <<pc, FileData, exit, UseDbgHelp, StringsBase, StringsCapacity, StringHash,
          intern, StabSymbols, CoffSymbols, MergedSymbols, merge, RosSymSection,
          OutFile>>

-----------------------------------------------------------------------------
(* Bounds of the model *)

MaxStabRows == 2
MaxCoffFuncs == 2
MaxInterns == 3

-----------------------------------------------------------------------------
(* Strings *)

NUL == "\\0"

Ord ==
    ("!" :> 33) @@ ("." :> 46) @@ ("/" :> 47) @@ (":" :> 58) @@ ("@" :> 64) @@
    ("B" :> 66) @@ ("F" :> 70) @@ ("_" :> 95) @@ ("a" :> 97) @@ ("b" :> 98) @@
    ("c" :> 99) @@ ("d" :> 100) @@ ("f" :> 102) @@ ("g" :> 103)

TableSize == 1024

\* unsigned int val = 5381; val = 33 * val + name[i].  Only val % TableSize is
\* ever used and TableSize divides 2^32, so the low 20 bits are carried.
RECURSIVE DJBFold(_, _)
DJBFold(val, name) ==
    IF name = <<>> THEN val
    ELSE DJBFold((33 * val + Ord[Head(name)]) % (TableSize * TableSize), Tail(name))

ComputeDJBHash(name) == DJBFold(5381, name)

\* strlen of the C string that starts at offset off of blob
RECURSIVE StrLenAt(_, _)
StrLenAt(blob, off) ==
    IF off >= Len(blob) \/ blob[off + 1] = NUL THEN 0
    ELSE 1 + StrLenAt(blob, off + 1)

\* the C string that starts at offset off of blob
StrAt(blob, off) == SubSeq(blob, off + 1, off + StrLenAt(blob, off))

\* A hash table is the sequence of its entries, newest first; the chain of a
\* bucket is the subsequence of the entries with that bucket number.
AddStringToHash(table, hash, Offset) ==
    <<[hash |-> hash, Offset |-> Offset]>> \o table

RECURSIVE HashInitWalk(_, _, _)
HashInitWalk(table, blob, Start) ==
    IF Start >= Len(blob) THEN table
    ELSE HashInitWalk(
            AddStringToHash(table, ComputeDJBHash(StrAt(blob, Start)) % TableSize, Start),
            blob, Start + StrLenAt(blob, Start) + 1)

StringHashTableInit(blob) == HashInitWalk(<<>>, blob, 0)

\* while (entry && strcmp(entry->String, StringToFind)) entry = entry->Next;
ChainFind(table, blob, hash, str) ==
    SelectSeq(table, LAMBDA e : e.hash = hash /\ StrAt(blob, e.Offset) = str)

FindOrAddStringAlwaysAppend(table, str, blob) ==
    LET hash == ComputeDJBHash(str) % TableSize
    IN  [Offset |-> Len(blob),
         Table |-> AddStringToHash(table, hash, Len(blob)),
         Strings |-> blob \o str \o <<NUL>>]

FindOrAddStringAtBase(table, str, blob) ==
    LET hash == ComputeDJBHash(str) % TableSize
        found == ChainFind(table, blob, hash, str)
        new == str \o <<NUL>>
    IN  IF found # <<>>
        THEN [Offset |-> found[1].Offset, Table |-> table, Strings |-> blob]
        ELSE [Offset |-> 0,
              Table |-> AddStringToHash(table, hash, 0),
              Strings |-> new \o SubSeq(blob, Len(new) + 1, Len(blob))]

FindOrAddString(table, str, blob) ==
    LET hash == ComputeDJBHash(str) % TableSize
        found == ChainFind(table, blob, hash, str)
    IN  IF found # <<>>
        THEN [Offset |-> found[1].Offset, Table |-> table, Strings |-> blob]
        ELSE [Offset |-> Len(blob),
              Table |-> AddStringToHash(table, hash, Len(blob)),
              Strings |-> blob \o str \o <<NUL>>]

-----------------------------------------------------------------------------
(* Rows (ROSSYM_ENTRY) and their order *)

Row(a, file, func, line) ==
    [Address |-> a, FileOffset |-> file, FunctionOffset |-> func, SourceLine |-> line]

ZeroRow == Row(0, 0, 0, 0)

CompareSymEntryZeroLineFirst(SymEntry1, SymEntry2) ==
    IF SymEntry1.Address < SymEntry2.Address THEN -1
    ELSE IF SymEntry2.Address < SymEntry1.Address THEN 1
    ELSE IF SymEntry1.SourceLine = 0 THEN -1
    ELSE IF SymEntry2.SourceLine = 0 THEN 1
    ELSE 0

CompareSymEntry(SymEntry1, SymEntry2) ==
    IF SymEntry1.Address < SymEntry2.Address THEN -1
    ELSE IF SymEntry2.Address < SymEntry1.Address THEN 1
    ELSE IF SymEntry2.SourceLine = 0 THEN -1
    ELSE IF SymEntry1.SourceLine = 0 THEN 1
    ELSE 0

\* qsort(base, n, sizeof(ROSSYM_ENTRY), CompareSymEntry): every arrangement of
\* the rows in which no row is followed by a row the comparator puts before
\* it.  CompareSymEntry answers -1 both ways for two rows of one address that
\* both have line 0, so the library may leave such rows in either order.
InsertAt(s, r, k) == SubSeq(s, 1, k) \o <<r>> \o SubSeq(s, k + 1, Len(s))

RECURSIVE QSortPrefix(_, _)
QSortPrefix(rows, n) ==
    IF n = 0 THEN {<<>>}
    ELSE { InsertAt(s, rows[n], k) :
             <<s, k>> \in { <<t, m>> \in QSortPrefix(rows, n - 1) \X (0..(n - 1)) :
                 /\ \A i \in 1..m : CompareSymEntry(t[i], rows[n]) <= 0
                 /\ \A i \in (m + 1)..Len(t) : CompareSymEntry(rows[n], t[i]) <= 0 } }

QSort(rows) == QSortPrefix(rows, Len(rows))

-----------------------------------------------------------------------------
(* The input image: GetStabInfo, GetCoffInfo *)

\* sizeof(STAB_ENTRY), sizeof(COFF_SYMENT), sizeof(ROSSYM_ENTRY),
\* sizeof(SYMBOLFILE_HEADER)
StabEntrySize == 12
CoffSymentSize == 18
RosSymEntrySize == 16
SymbolFileHeaderSize == 16

StartsWith(name, prefix) ==
    Len(name) >= Len(prefix) /\ SubSeq(name, 1, Len(prefix)) = prefix

DotStab == <<".", "s", "t", "a", "b">>
DotStabStr == <<".", "s", "t", "a", "b", "s", "t", "r">>
DotDebug == <<".", "d", "e", "b", "u", "g", "_">>
DotRosSym == <<".", "r", "o", "s", "s", "y", "m">>

\* the last section of the table that bears Name, 0 if none
LastSection(Sections, Name) ==
    LET S == { k \in 1..Len(Sections) : Sections[k].Name = Name }
    IN  IF S = {} THEN 0 ELSE CHOOSE k \in S : \A m \in S : m <= k

\* a read of Length bytes at Offset of the buffer of FileSize bytes load_file
\* returned that reaches beyond the buffer
BeyondFile(img, Offset, Length) == Length # 0 /\ Offset + Length > img.FileSize

\* GetStabInfo: the raw 8-byte names are compared, ".stab" exactly and
\* ".stabstr" over its 8 bytes.  No offset is compared with the size of the
\* file: Beyond tells that the bytes StabSymbolsBase or StabStringsBase point
\* at do not all lie in the buffer.
GetStabInfo(img) ==
    LET stab == LastSection(img.Sections, DotStab)
        str == LastSection(img.Sections, DotStabStr)
    IN  [StabSymbolsLength |-> IF stab = 0 THEN 0 ELSE img.Sections[stab].SizeOfRawData,
         StabStringsLength |-> IF str = 0 THEN 0 ELSE img.Sections[str].SizeOfRawData,
         Beyond |-> \E k \in {stab, str} \ {0} :
                       BeyondFile(img, img.Sections[k].PointerToRawData,
                                  img.Sections[k].SizeOfRawData)]

\* GetCoffInfo: the string table follows the symbol records and begins with
\* its own length, a ULONG that is read here.  Beyond tells that the symbol
\* records and that ULONG do not all lie in the buffer.
GetCoffInfo(img) ==
    IF img.PointerToSymbolTable = 0 \/ img.NumberOfSymbols = 0
    THEN [CoffSymbolsLength |-> 0, CoffStringsLength |-> 0, Beyond |-> FALSE]
    ELSE [CoffSymbolsLength |-> img.NumberOfSymbols * CoffSymentSize,
          CoffStringsLength |-> Len(img.CoffStrings),
          Beyond |-> BeyondFile(img, img.PointerToSymbolTable,
                                img.NumberOfSymbols * CoffSymentSize + 4)]

-----------------------------------------------------------------------------
(* ConvertStabs *)

\* ULONG arithmetic wraps; the words of the model are 16 bits wide and the
\* image base and the addresses of the inputs are scaled to that width.
UlongRange == 2 ^ 16

Wrap(x) == x % UlongRange

\* Name[strlen(Name) - 1]
LastChar(Name) == Name[Len(Name)]

\* strcspn(Name, ":")
RECURSIVE StrCSpnColon(_)
StrCSpnColon(Name) ==
    IF Name = <<>> \/ Head(Name) = ":" THEN 0 ELSE 1 + StrCSpnColon(Tail(Name))

\* sizeof(FuncName)
FuncNameSize == 256

\* The decoder's locals: Rows is *SymbolsBase[0 .. Current], so Current is the
\* last row; Before is the content of the memory in front of the array, which
\* Current[-1] reads while Current is still the first row.
StabsStart(blob, Before) ==
    [Rows |-> <<ZeroRow>>, First |-> TRUE, LastFunctionAddress |-> 0,
     Strings |-> blob, Table |-> StringHashTableInit(blob),
     Before |-> Before, ReadBefore |-> FALSE, Failed |-> FALSE]

Current(st) == st.Rows[Len(st.Rows)]

\* Current[-1]
Previous(st) == IF Len(st.Rows) > 1 THEN st.Rows[Len(st.Rows) - 1] ELSE st.Before

SetCurrent(st, row) == [st EXCEPT !.Rows[Len(st.Rows)] = row]

\* if (First || Address != Current->Address): the row the record is put in.
\* inherit names the fields the new row copies from Current[-1] right after
\* memset(++Current); the N_FUN case copies FileOffset after the if / else,
\* so also when the row is the first one.
StabsNewRow(st, Address, inheritFile, inheritFunc, fileAlways) ==
    IF st.First \/ Address # Current(st).Address
    THEN LET st1 == IF ~st.First
                    THEN [st EXCEPT !.Rows = Append(st.Rows, ZeroRow)]
                    ELSE [st EXCEPT !.First = FALSE]
             prev == Previous(st1)
             new == ~st.First
             row0 == Current(st1)
             row1 == IF new /\ inheritFunc
                     THEN [row0 EXCEPT !.FunctionOffset = prev.FunctionOffset] ELSE row0
             row2 == [row1 EXCEPT !.Address = Address]
             row3 == IF (new /\ inheritFile) \/ fileAlways
                     THEN [row2 EXCEPT !.FileOffset = prev.FileOffset] ELSE row2
         IN  [SetCurrent(st1, row3) EXCEPT
                 !.ReadBefore = st.ReadBefore \/ (fileAlways /\ Len(st1.Rows) = 1)]
    ELSE st

StabsSourceFile(st, e, Address, img) ==
    LET Name == StrAt(img.StabStrings, e.n_strx)
    IN  IF \/ GetStabInfo(img).StabStringsLength < e.n_strx
           \/ Name = <<>>
           \/ LastChar(Name) = "/"
           \/ LastChar(Name) = "\\"
           \/ e.n_value < img.ImageBase
        THEN st
        ELSE LET st1 == StabsNewRow(st, Address, FALSE, TRUE, FALSE)
                 r == FindOrAddString(st1.Table, Name, st1.Strings)
             IN  [SetCurrent(st1, [Current(st1) EXCEPT !.FileOffset = r.Offset])
                    EXCEPT !.Table = r.Table, !.Strings = r.Strings]

StabsFunction(st, e, Address, img) ==
    IF e.n_desc = 0 \/ e.n_value < img.ImageBase
    THEN [st EXCEPT !.LastFunctionAddress = 0]
    ELSE LET st1 == StabsNewRow(st, Address, FALSE, FALSE, TRUE)
             Name == StrAt(img.StabStrings, e.n_strx)
             NameLen == StrCSpnColon(Name)
             r == FindOrAddString(st1.Table, SubSeq(Name, 1, NameLen), st1.Strings)
         IN  IF FuncNameSize <= NameLen
             THEN [st1 EXCEPT !.Failed = TRUE]
             ELSE [SetCurrent(st1, [Current(st1) EXCEPT !.FunctionOffset = r.Offset,
                                                         !.SourceLine = 0])
                    EXCEPT !.Table = r.Table, !.Strings = r.Strings,
                           !.LastFunctionAddress = Address]

\* a decoder that sets the line only on a row it has just started
StabsLineOnNewRows(st, e, Address) ==
    LET st1 == StabsNewRow(st, Address, TRUE, TRUE, FALSE)
    IN  IF st.First \/ Address # Current(st).Address
        THEN SetCurrent(st1, [Current(st1) EXCEPT !.SourceLine = e.n_desc])
        ELSE st1

StabsLine(st, e, Address) ==
    LET st1 == StabsNewRow(st, Address, TRUE, TRUE, FALSE)
    IN  SetCurrent(st1, [Current(st1) EXCEPT !.SourceLine = e.n_desc])

\* the body of the for loop, for record e
StabsRecord(st, e, img) ==
    LET Address == IF st.LastFunctionAddress = 0
                   THEN Wrap(e.n_value - img.ImageBase)
                   ELSE Wrap(st.LastFunctionAddress + e.n_value)
    IN  CASE e.n_type \in {"N_SO", "N_SOL", "N_BINCL"} -> StabsSourceFile(st, e, Address, img)
          [] e.n_type = "N_FUN" -> StabsFunction(st, e, Address, img)
          [] e.n_type = "N_SLINE" -> StabsLine(st, e, Address)
          [] OTHER -> st

RECURSIVE StabsLoop(_, _, _)
StabsLoop(st, img, i) ==
    IF i > Len(img.StabEntries) \/ st.Failed THEN st
    ELSE StabsLoop(StabsRecord(st, img.StabEntries[i], img), img, i + 1)

\* ConvertStabs up to the qsort: Count == 0 returns no rows at all
ConvertStabs(img, blob, Before) ==
    IF GetStabInfo(img).StabSymbolsLength \div StabEntrySize = 0
    THEN [StabsStart(blob, Before) EXCEPT !.Rows = <<>>]
    ELSE StabsLoop(StabsStart(blob, Before), img, 1)

-----------------------------------------------------------------------------
(* ConvertCoffs *)

\* sizeof e_name
E_SYMNMLEN == 8

\* strrchr(FuncName, '@'): the index of the last '@' of the name, 0 if none
LastAt(Name) ==
    LET S == { k \in 1..Len(Name) : Name[k] = "@" }
    IN  IF S = {} THEN 0 ELSE CHOOSE k \in S : \A m \in S : m <= k

\* Name demangling: stdcall
Demangle(FuncName) ==
    LET cut == IF LastAt(FuncName) # 0 THEN SubSeq(FuncName, 1, LastAt(FuncName) - 1)
               ELSE FuncName
    IN  IF cut # <<>> /\ cut[1] \in {"_", "@"} THEN Tail(cut) ELSE cut

\* the name of a symbol record: the inline 8 bytes, or the string of the COFF
\* string table at e_offset when e_zeroes == 0
CoffName(e, img) ==
    IF e.e_zeroes = 0 THEN StrAt(img.CoffStrings, e.e_offset)
    ELSE SubSeq(e.e_name, 1, IF Len(e.e_name) < E_SYMNMLEN THEN Len(e.e_name) ELSE E_SYMNMLEN)

\* Rows is *SymbolsBase[0 .. Current - 1]: the rows written so far.  Current
\* itself is zeroed by the memset that follows a row, and is memory nobody
\* wrote (Uninit) while no record has qualified.
CoffsStart(blob) ==
    [Rows |-> <<>>, Strings |-> blob, Table |-> StringHashTableInit(blob),
     Failed |-> FALSE, Decoded |-> <<>>]

CoffsRecord(st, e, i, img) ==
    IF e.isfcn \/ e.e_sclass = "C_EXT"
    THEN IF e.e_scnum > 0 /\ Len(img.Sections) < e.e_scnum
         THEN [st EXCEPT !.Failed = TRUE]
         ELSE LET Address == Wrap(e.e_value +
                                  (IF e.e_scnum > 0
                                   THEN img.Sections[e.e_scnum].VirtualAddress ELSE 0))
                  FuncName == CoffName(e, img)
                  r == FindOrAddString(st.Table, Demangle(FuncName), st.Strings)
              IN  IF e.e_zeroes = 0 /\ FuncNameSize <= Len(FuncName)
                  THEN [st EXCEPT !.Failed = TRUE]
                  ELSE [st EXCEPT !.Rows = Append(st.Rows, Row(Address, 0, r.Offset, 0)),
                                  !.Table = r.Table, !.Strings = r.Strings,
                                  !.Decoded = Append(st.Decoded, i)]
    ELSE st

\* for (i = 0; i < Count; i++) { ...; i += CoffEntry[i].e_numaux; }
RECURSIVE CoffsLoop(_, _, _)
CoffsLoop(st, img, i) ==
    IF i > Len(img.CoffEntries) \/ st.Failed THEN st
    ELSE CoffsLoop(CoffsRecord(st, img.CoffEntries[i], i, img), img,
                   i + 1 + img.CoffEntries[i].e_numaux)

\* ConvertCoffs up to the qsort: *SymbolsCount = Current - *SymbolsBase + 1
ConvertCoffs(img, blob, Uninit) ==
    LET st == CoffsLoop(CoffsStart(blob), img, 1)
    IN  [st EXCEPT !.Rows = Append(st.Rows, IF st.Rows = <<>> THEN Uninit ELSE ZeroRow)]

-----------------------------------------------------------------------------
(* ConvertDbgHelp and its callback DbgHelpAddLineNumber *)

IsSeparator(c) == c = "/" \/ c = "\\"

\* strrchr(FileName, c): the C index of the last c, -1 for NULL
StrRChr(FileName, c) ==
    LET S == { k \in 1..Len(FileName) : FileName[k] = c }
    IN  IF S = {} THEN -1 ELSE (CHOOSE k \in S : \A m \in S : m <= k) - 1

\* FileName + i
StrFrom(FileName, i) == SubSeq(FileName, i + 1, Len(FileName))

\* for (i = (end - FileName) - 1; i >= 0; i--): the value of i when the loop
\* is left, by the break after a successful fopen or with i == -1
RECURSIVE ChopProbe(_, _, _)
ChopProbe(FileName, i, SourceFiles) ==
    IF i < 0 THEN i
    ELSE IF IsSeparator(FileName[i + 1]) /\ StrFrom(FileName, i + 1) \in SourceFiles
         THEN i
         ELSE ChopProbe(FileName, i - 1, SourceFiles)

\* PathChop is [set |-> FALSE] for NULL
NullChop == [set |-> FALSE, val |-> <<>>]

ComputePathChop(chop, FileName, SourceFiles) ==
    IF chop.set THEN chop
    ELSE LET e1 == StrRChr(FileName, "/")
             end == IF e1 = -1 THEN StrRChr(FileName, "\\") ELSE e1
         IN  IF end = -1 THEN chop
             ELSE [set |-> TRUE,
                   val |-> SubSeq(FileName, 1, ChopProbe(FileName, end - 1, SourceFiles) + 1)]

\* Remove a prefix of PathChop if it exists and return a copy of the tail.
StrDupShortenPath(PathChop, FilePath) ==
    LET pclen == Len(PathChop)
    IN  IF pclen <= Len(FilePath) /\ SubSeq(FilePath, 1, pclen) = PathChop
        THEN StrFrom(FilePath, pclen)
        ELSE FilePath

\* struct DbgHelpStringTab: Table maps a bucket to the names stored in it
DbgTableGet(Table, bucket) == IF bucket \in DOMAIN Table THEN Table[bucket] ELSE <<>>

\* DbgHelpAddStringToTable: [Table, id], id = (i << 10) | bucket
DbgHelpAddStringToTable(Table, name) ==
    LET bucket == ComputeDJBHash(name) % TableSize
        tabEnt == DbgTableGet(Table, bucket)
        hits == { i \in 1..Len(tabEnt) : tabEnt[i] = name }
    IN  IF hits # {}
        THEN [Table |-> Table,
              id |-> ((CHOOSE i \in hits : \A m \in hits : i <= m) - 1) * TableSize + bucket]
        ELSE [Table |-> [b \in DOMAIN Table \cup {bucket} |->
                            IF b = bucket THEN Append(tabEnt, name) ELSE Table[b]],
              id |-> Len(tabEnt) * TableSize + bucket]

\* the names of a bucket as they are copied into the blob
RECURSIVE CopyNames(_)
CopyNames(names) ==
    IF names = <<>> THEN <<>>
    ELSE Head(names) \o <<NUL>> \o CopyNames(Tail(names))

\* Copy in strings: the buckets by ascending number, up to (not including) end
RECURSIVE DbgStringsUpTo(_, _)
DbgStringsUpTo(Table, end) ==
    LET B == { b \in DOMAIN Table : b < end }
    IN  IF B = {} THEN <<>>
        ELSE LET last == CHOOSE b \in B : \A m \in B : m <= b
             IN  DbgStringsUpTo(Table, last) \o CopyNames(Table[last])

\* strtab.Table[bucket][entry] - strings
DbgOffset(Table, id) ==
    LET bucket == id % TableSize
        entry == id \div TableSize
    IN  Len(DbgStringsUpTo(Table, bucket))
            + Len(CopyNames(SubSeq(Table[bucket], 1, entry)))

\* strtab after ConvertDbgHelp has set it up: the zero string in bucket 0
DbgStart ==
    [Table |-> (0 :> << <<>> >>), Lines |-> <<>>, PathChop |-> NullChop,
     Crashed |-> FALSE, Stopped |-> FALSE, Dropped |-> {}]

\* DbgHelpAddLineNumber for callback number n; strlen(NULL) in
\* StrDupShortenPath when no path chop could be set ends the process
DbgHelpAddLineNumber(st, LineInfo, n, img) ==
    LET chop == ComputePathChop(st.PathChop, LineInfo.FileName, img.SourceFiles)
        f == DbgHelpAddStringToTable(st.Table, StrDupShortenPath(chop.val, LineInfo.FileName))
        g == DbgHelpAddStringToTable(f.Table, LineInfo.Symbol)
    IN  IF ~chop.set
        THEN [st EXCEPT !.Crashed = TRUE]
        ELSE IF ~LineInfo.SymFound
        THEN [st EXCEPT !.PathChop = chop, !.Table = f.Table, !.Stopped = TRUE,
                        !.Dropped = st.Dropped \cup {n}]
        ELSE [st EXCEPT !.PathChop = chop, !.Table = g.Table,
                        !.Lines = Append(st.Lines,
                                    [vma |-> Wrap(LineInfo.Address - img.ModBase),
                                     fileId |-> f.id, functionId |-> g.id,
                                     line |-> LineInfo.LineNumber])]

\* SymEnumLines: one callback per line, for as long as the callback returns TRUE
RECURSIVE SymEnumLines(_, _, _)
SymEnumLines(st, img, n) ==
    IF n > Len(img.Lines) \/ st.Crashed \/ st.Stopped THEN st
    ELSE SymEnumLines(DbgHelpAddLineNumber(st, img.Lines[n], n, img), img, n + 1)

\* ConvertDbgHelp up to the qsort
ConvertDbgHelp(img) ==
    LET st == SymEnumLines(DbgStart, img, 1)
    IN  [Crashed |-> st.Crashed,
         Dropped |-> st.Dropped,
         Strings |-> DbgStringsUpTo(st.Table, TableSize),
         Rows |-> [i \in 1..Len(st.Lines) |->
                     Row(st.Lines[i].vma,
                         DbgOffset(st.Table, st.Lines[i].fileId),
                         DbgOffset(st.Table, st.Lines[i].functionId),
                         st.Lines[i].line)]]

-----------------------------------------------------------------------------
(* MergeStabsAndCoffs *)

\* CoffSymbols[i]; index CoffSymbolsCount is the memory just past the array,
\* whose content (Past) is whatever the heap holds there.
CoffAt(st, i) == IF i < Len(st.Coff) THEN st.Coff[i + 1] ELSE st.Past

\* first index j > StabIndex whose row has another address (or the count)
RECURSIVE SameAddressEnd(_, _, _)
SameAddressEnd(Stab, StabIndex, j) ==
    IF j < Len(Stab) /\ Stab[j + 1].Address = Stab[StabIndex + 1].Address
    THEN SameAddressEnd(Stab, StabIndex, j + 1)
    ELSE j

\* the inner for loop: fold rows StabIndex+1 .. j-1 into the current row
RECURSIVE Collapse(_, _, _, _)
Collapse(cur, Stab, k, j) ==
    IF k >= j THEN cur
    ELSE LET s == Stab[k + 1]
             c1 == IF s.FileOffset # 0 /\ cur.FileOffset = 0
                   THEN [cur EXCEPT !.FileOffset = s.FileOffset] ELSE cur
             c2 == IF s.FunctionOffset # 0 /\ c1.FunctionOffset = 0
                   THEN [c1 EXCEPT !.FunctionOffset = s.FunctionOffset] ELSE c1
             c3 == IF s.SourceLine # 0 /\ c2.SourceLine = 0
                   THEN [c2 EXCEPT !.SourceLine = s.SourceLine] ELSE c2
         IN  Collapse(c3, Stab, k + 1, j)

\* while (CoffIndex < CoffSymbolsCount &&
\*        CoffSymbols[CoffIndex + 1].Address <= Merged.Address) CoffIndex++;
RECURSIVE AdvanceCoff(_, _, _, _)
AdvanceCoff(st, CoffIndex, Address, Reads) ==
    IF CoffIndex < Len(st.Coff)
    THEN IF CoffAt(st, CoffIndex + 1).Address <= Address
         THEN AdvanceCoff(st, CoffIndex + 1, Address, Reads \cup {CoffIndex + 1})
         ELSE [CoffIndex |-> CoffIndex, Reads |-> Reads \cup {CoffIndex + 1}]
    ELSE [CoffIndex |-> CoffIndex, Reads |-> Reads]

\* one iteration of the loop over the stab rows, for the rows StabIndex .. j-1
MergeRow(st, Stab, StabIndex, j) ==
    LET cur0 == Collapse(Stab[StabIndex + 1], Stab, StabIndex + 1, j)
        adv == AdvanceCoff(st, st.CoffIndex, cur0.Address, {})
        ci == adv.CoffIndex
        c == CoffAt(st, ci)
        NewStabFunctionStringOffset == cur0.FunctionOffset
        override ==
            /\ Len(st.Coff) > 0
            /\ c.Address < cur0.Address
            /\ st.StabFunctionStartAddress < c.Address
            /\ c.FunctionOffset # 0
        cur == IF override THEN [cur0 EXCEPT !.FunctionOffset = c.FunctionOffset]
               ELSE cur0
        zeroed == [c EXCEPT !.FileOffset = 0, !.FunctionOffset = 0]
    IN  [st EXCEPT
            !.Merged = Append(st.Merged, cur),
            !.Coff = IF override /\ ci < Len(st.Coff)
                     THEN [st.Coff EXCEPT ![ci + 1] = zeroed] ELSE st.Coff,
            !.Past = IF override /\ ci >= Len(st.Coff) THEN zeroed ELSE st.Past,
            !.CoffIndex = ci,
            !.StabFunctionStartAddress =
                IF st.StabFunctionStringOffset # NewStabFunctionStringOffset
                THEN cur.Address ELSE st.StabFunctionStartAddress,
            !.StabFunctionStringOffset = NewStabFunctionStringOffset,
            !.Reads = st.Reads \cup adv.Reads
                        \cup (IF Len(st.Coff) > 0 THEN {ci} ELSE {}),
            !.Overrides = IF override
                          THEN Append(st.Overrides,
                                      [Coff |-> ci, Row |-> Len(st.Merged) + 1,
                                       Name |-> c.FunctionOffset,
                                       Address |-> c.Address,
                                       Start |-> st.StabFunctionStartAddress])
                          ELSE st.Overrides]

RECURSIVE MergeStabLoop(_, _, _)
MergeStabLoop(st, Stab, StabIndex) ==
    IF StabIndex >= Len(Stab) THEN st
    ELSE LET j == SameAddressEnd(Stab, StabIndex, StabIndex + 1)
         IN  MergeStabLoop(MergeRow(st, Stab, StabIndex, j), Stab, j)

\* for (CoffIndex = 0; CoffIndex < CoffSymbolsCount; CoffIndex++)
\*     if (CoffSymbols[CoffIndex].Address && CoffSymbols[CoffIndex].FunctionOffset)
MergeCoffTailSkipsFirst(Coff) ==
    SelectSeq(Tail(Coff), LAMBDA c : c.Address # 0 /\ c.FunctionOffset # 0)

\* a tail pass that looks at the address only
MergeCoffTailByAddress(Coff) ==
    SelectSeq(Coff, LAMBDA c : c.Address # 0)

\* a tail pass that looks at the name only
MergeCoffTailByName(Coff) ==
    SelectSeq(Coff, LAMBDA c : c.FunctionOffset # 0)

MergeCoffTail(Coff) ==
    SelectSeq(Coff, LAMBDA c : c.Address # 0 /\ c.FunctionOffset # 0)

MergeStart(Coff, Past) ==
    [Merged |-> <<>>, Coff |-> Coff, Past |-> Past, CoffIndex |-> 0,
     StabFunctionStartAddress |-> 0, StabFunctionStringOffset |-> 0,
     Reads |-> {}, Overrides |-> <<>>]

MergeUnsortedWithoutStabs(Stab, Coff, Past) ==
    LET st == MergeStabLoop(MergeStart(Coff, Past), Stab, 0)
    IN  [st EXCEPT !.Merged = st.Merged \o MergeCoffTail(st.Coff)]

\* the merged rows before the final qsort, and what the call did on the way
MergeUnsorted(Stab, Coff, Past) ==
    IF Len(Stab) = 0 THEN MergeStart(Coff, Past)
    ELSE LET st == MergeStabLoop(MergeStart(Coff, Past), Stab, 0)
         IN  [st EXCEPT !.Merged = st.Merged \o MergeCoffTail(st.Coff)]

MergeSortedNoQSort(rows) == {rows}

\* qsort(*MergedSymbols, *MergedSymbolCount, ...) at the end of the merger
MergeSorted(rows) == QSort(rows)

-----------------------------------------------------------------------------
(* ProcessRelocations and CreateOutputFile: the headers of the output file *)

RoundUp(N, S) == ((N + S - 1) \div S) * S

Digits ==
    ("0" :> 0) @@ ("1" :> 1) @@ ("2" :> 2) @@ ("3" :> 3) @@ ("4" :> 4) @@
    ("5" :> 5) @@ ("6" :> 6) @@ ("7" :> 7) @@ ("8" :> 8) @@ ("9" :> 9)

\* atoi of a string of the section table: the value of its leading digits
RECURSIVE AtoiFrom(_, _)
AtoiFrom(acc, str) ==
    IF str = <<>> \/ Head(str) \notin DOMAIN Digits THEN acc
    ELSE AtoiFrom(10 * acc + Digits[Head(str)], Tail(str))

Atoi(str) == AtoiFrom(0, str)

GetSectionNameRaw(StringTable, SectionTitle) == SectionTitle

\* GetSectionName: a title "/NN" names the string at offset NN of the COFF
\* string table
GetSectionName(StringTable, SectionTitle) ==
    IF SectionTitle # <<>> /\ SectionTitle[1] = "/"
    THEN StrAt(StringTable, Atoi(Tail(SectionTitle)))
    ELSE SectionTitle

IsDebugSection(img, h) ==
    LET SectionName == GetSectionName(img.CoffStrings, h.Name)
    IN  StartsWith(SectionName, DotStab) \/ StartsWith(SectionName, DotDebug)

\* FindSectionForRVA: the index (from 1) of the first section that holds RVA,
\* 0 for NULL
FindSectionForRVA(RVA, SectionHeaders) ==
    LET S == { k \in 1..Len(SectionHeaders) :
                 /\ SectionHeaders[k].VirtualAddress <= RVA
                 /\ RVA < SectionHeaders[k].VirtualAddress + SectionHeaders[k].VirtualSize }
    IN  IF S = {} THEN 0 ELSE CHOOSE k \in S : \A m \in S : k <= m

\* ---- the bytes of the files, as 16-bit little-endian words ----
\* Data is held as a function from the indices (from 0) of its words that are
\* not zero to their values: a word that is zero does not move the checksum.

ByteOf(c) ==
    IF c = NUL THEN 0
    ELSE IF c \in DOMAIN Ord THEN Ord[c]
    ELSE CASE c = "e" -> 101 [] c = "u" -> 117 [] c = "#" -> 35
           [] c = "x" -> 120 [] c = "y" -> 121

WordRange == 2 ^ 16

DwordWords(v) == <<v % WordRange, v \div WordRange>>

BytesToWords(bs) ==
    [j \in 1..((Len(bs) + 1) \div 2) |->
        ByteOf(bs[2 * j - 1]) + 256 * (IF 2 * j <= Len(bs) THEN ByteOf(bs[2 * j]) ELSE 0)]

RECURSIVE Flatten(_)
Flatten(ss) == IF ss = <<>> THEN <<>> ELSE Head(ss) \o Flatten(Tail(ss))

Sparse(ws) == [i \in { j - 1 : j \in { k \in 1..Len(ws) : ws[k] # 0 } } |-> ws[i + 1]]

\* an IMAGE_BASE_RELOCATION block: VirtualAddress, SizeOfBlock, its entries
BlockWords(b) ==
    SubSeq(DwordWords(b.VirtualAddress) \o DwordWords(b.SizeOfBlock)
             \o [i \in 1..((b.SizeOfBlock - 8) \div 2) |-> 256 * ByteOf(b.Data) + i],
           1, b.SizeOfBlock \div 2)

HasRelocations(img) == img.RelocDir.VirtualAddress # 0

\* memcmp over SizeOfBlock bytes of two blocks of the same SizeOfBlock
SameBlock(a, b) == a.SizeOfBlock = b.SizeOfBlock /\ BlockWords(a) = BlockWords(b)

RECURSIVE RelocWalkKeepsDuplicates(_, _, _, _)
RelocWalkKeepsDuplicates(img, Accepted, n, Offset) ==
    IF n > Len(img.RelocBlocks) \/ Offset >= img.RelocDir.Size
       \/ img.RelocBlocks[n].SizeOfBlock = 0
    THEN Accepted
    ELSE LET b == img.RelocBlocks[n]
             keep == FindSectionForRVA(b.VirtualAddress, img.Sections) # 0
         IN  RelocWalkKeepsDuplicates(img, IF keep THEN Append(Accepted, b) ELSE Accepted,
                                      n + 1, Offset + b.SizeOfBlock)

\* the walk over the blocks of the relocation directory: Accepted are the
\* blocks copied so far, Offset the position of block n in the directory;
\* behind the blocks of the image the section holds zeros
RECURSIVE RelocWalk(_, _, _, _)
RelocWalk(img, Accepted, n, Offset) ==
    IF n > Len(img.RelocBlocks) \/ Offset >= img.RelocDir.Size
       \/ img.RelocBlocks[n].SizeOfBlock = 0
    THEN Accepted
    ELSE LET b == img.RelocBlocks[n]
             Found == \E k \in 1..Len(Accepted) : SameBlock(b, Accepted[k])
             keep == FindSectionForRVA(b.VirtualAddress, img.Sections) # 0 /\ ~Found
         IN  RelocWalk(img, IF keep THEN Append(Accepted, b) ELSE Accepted,
                       n + 1, Offset + b.SizeOfBlock)

RECURSIVE BlocksLength(_)
BlocksLength(blocks) ==
    IF blocks = <<>> THEN 0 ELSE Head(blocks).SizeOfBlock + BlocksLength(Tail(blocks))

\* ProcessRelocations: Failed when no section holds the directory
ProcessRelocations(img) ==
    IF ~HasRelocations(img)
    THEN [Failed |-> FALSE, ProcessedRelocs |-> <<>>, ProcessedRelocsLength |-> 0]
    ELSE IF FindSectionForRVA(img.RelocDir.VirtualAddress, img.Sections) = 0
    THEN [Failed |-> TRUE, ProcessedRelocs |-> <<>>, ProcessedRelocsLength |-> 0]
    ELSE LET acc == RelocWalk(img, <<>>, 1, 0)
         IN  [Failed |-> FALSE, ProcessedRelocs |-> acc,
              ProcessedRelocsLength |-> BlocksLength(acc)]

\* the first loop over the sections: StringTableLength and StartOfRawData
RECURSIVE OutScan(_, _, _)
OutScan(img, Section, st) ==
    IF Section > Len(img.Sections) THEN st
    ELSE LET h == img.Sections[Section]
             SectionName == GetSectionName(img.CoffStrings, h.Name)
             len == IF h.Name # <<>> /\ h.Name[1] = "/"
                    THEN Atoi(Tail(h.Name)) + Len(SectionName) + 1
                    ELSE st.StringTableLength
             start == IF /\ (st.StartOfRawData = 0 \/ h.PointerToRawData < st.StartOfRawData)
                         /\ h.PointerToRawData # 0
                         /\ ~StartsWith(SectionName, DotStab)
                         /\ ~StartsWith(SectionName, DotDebug)
                      THEN h.PointerToRawData ELSE st.StartOfRawData
         IN  OutScan(img, Section + 1,
                     [StringTableLength |-> len, StartOfRawData |-> start])

\* the second loop: the headers of the sections that are kept
RECURSIVE OutCopy(_, _, _, _)
OutCopy(img, Section, InRelocSectionIndex, st) ==
    IF Section > Len(img.Sections) THEN st
    ELSE LET h == img.Sections[Section]
             end == h.PointerToRawData + h.SizeOfRawData
         IN  IF IsDebugSection(img, h) THEN OutCopy(img, Section + 1, InRelocSectionIndex, st)
             ELSE OutCopy(img, Section + 1, InRelocSectionIndex,
                    [st EXCEPT
                        !.Sections = Append(st.Sections,
                            [Name |-> h.Name, VirtualSize |-> h.VirtualSize,
                             VirtualAddress |-> h.VirtualAddress,
                             SizeOfRawData |-> h.SizeOfRawData,
                             PointerToRawData |-> h.PointerToRawData,
                             From |-> Section]),
                        !.SizeOfImage =
                            IF st.SizeOfImage < h.VirtualAddress + h.VirtualSize
                            THEN RoundUp(h.VirtualAddress + h.VirtualSize, img.SectionAlignment)
                            ELSE st.SizeOfImage,
                        !.RosSymOffset = IF st.RosSymOffset < end THEN end ELSE st.RosSymOffset,
                        !.OutRelocSection =
                            IF Section = InRelocSectionIndex THEN Len(st.Sections) + 1
                            ELSE st.OutRelocSection,
                        !.StringTableLocation = end])

\* if (OutRelocSection == CurrentSectionHeader - 1): the relocation section is
\* the last one kept and takes the size of the compacted relocations
OutShrinkRelocs(img, st, ProcessedRelocsLength) ==
    IF st.OutRelocSection # 0 /\ st.OutRelocSection = Len(st.Sections)
    THEN LET r == st.Sections[st.OutRelocSection]
         IN  [st EXCEPT
                !.RelocDirSize = ProcessedRelocsLength,
                !.SizeOfImage =
                    IF st.SizeOfImage = r.VirtualAddress
                                          + RoundUp(r.VirtualSize, img.SectionAlignment)
                    THEN r.VirtualAddress + RoundUp(ProcessedRelocsLength, img.SectionAlignment)
                    ELSE st.SizeOfImage,
                !.RosSymOffset =
                    IF st.RosSymOffset = r.PointerToRawData + r.SizeOfRawData
                    THEN r.PointerToRawData + RoundUp(ProcessedRelocsLength, img.FileAlignment)
                    ELSE st.RosSymOffset,
                !.Sections[st.OutRelocSection] =
                    [r EXCEPT !.VirtualSize = ProcessedRelocsLength,
                              !.SizeOfRawData = RoundUp(ProcessedRelocsLength, img.FileAlignment)]]
    ELSE st

OutAppendRosSymAlways(img, st, RosSymLength) ==
    [st EXCEPT
        !.Sections = Append(st.Sections,
            [Name |-> DotRosSym, VirtualSize |-> RosSymLength,
             VirtualAddress |-> st.SizeOfImage,
             SizeOfRawData |-> RoundUp(RosSymLength, img.FileAlignment),
             PointerToRawData |-> st.RosSymOffset, From |-> 0]),
        !.StringTableLocation = st.RosSymOffset + RoundUp(RosSymLength, img.FileAlignment)]

\* if (RosSymLength > 0): the header of the .rossym section
OutAppendRosSym(img, st, RosSymLength) ==
    IF RosSymLength > 0
    THEN LET RosSymFileLength == RoundUp(RosSymLength, img.FileAlignment)
         IN  [st EXCEPT
                !.Sections = Append(st.Sections,
                    [Name |-> DotRosSym, VirtualSize |-> RosSymLength,
                     VirtualAddress |-> st.SizeOfImage,
                     SizeOfRawData |-> RosSymFileLength,
                     PointerToRawData |-> st.RosSymOffset, From |-> 0]),
                !.SizeOfImage = RoundUp(st.SizeOfImage + RosSymLength, img.SectionAlignment),
                !.StringTableLocation = st.RosSymOffset + RosSymFileLength]
    ELSE st

\* the raw data of section k of the input file: the blocks of the relocation
\* directory, or two words that mark the first and the last word of the section
SectionWords(img, k) ==
    LET h == img.Sections[k]
    IN  IF h.SizeOfRawData = 0 THEN <<>>
        ELSE IF HasRelocations(img)
                /\ k = FindSectionForRVA(img.RelocDir.VirtualAddress, img.Sections)
        THEN Sparse(Flatten([n \in 1..Len(img.RelocBlocks) |-> BlockWords(img.RelocBlocks[n])]))
        ELSE (0 :> 256 + k) @@ ((h.SizeOfRawData \div 2 - 1) :> 512 + k)

\* InData: the word at word offset w of the input file
InDataAt(img, w) ==
    LET S == { k \in 1..Len(img.Sections) :
                 (w - img.Sections[k].PointerToRawData \div 2) \in DOMAIN SectionWords(img, k) }
    IN  IF S = {} THEN 0
        ELSE LET s == CHOOSE m \in S : TRUE
             IN  SectionWords(img, s)[w - img.Sections[s].PointerToRawData \div 2]

InDataDomain(img) ==
    UNION { { img.Sections[k].PointerToRawData \div 2 + i : i \in DOMAIN SectionWords(img, k) } :
            k \in 1..Len(img.Sections) }

\* (char *) InData + Pointer, read over Size bytes
InDataFrom(img, Pointer, Size) ==
    [i \in { w - Pointer \div 2 : w \in { v \in InDataDomain(img) :
                 Pointer \div 2 <= v /\ v < (Pointer + Size) \div 2 } } |->
        InDataAt(img, Pointer \div 2 + i)]

\* the .rossym blob of main: SYMBOLFILE_HEADER, the rows, the strings
RosSymWords(R) ==
    LET SymbolsLength == Len(R.Symbols) * RosSymEntrySize
    IN  IF R.Length = 0 THEN <<>>
        ELSE Sparse(
               DwordWords(SymbolFileHeaderSize) \o DwordWords(SymbolsLength)
               \o DwordWords(SymbolFileHeaderSize + SymbolsLength)
               \o DwordWords(Len(R.Strings))
               \o Flatten([n \in 1..Len(R.Symbols) |->
                     DwordWords(R.Symbols[n].Address) \o DwordWords(R.Symbols[n].FileOffset)
                     \o DwordWords(R.Symbols[n].FunctionOffset)
                     \o DwordWords(R.Symbols[n].SourceLine)])
               \o BytesToWords(R.Strings))

\* ProcessedRelocs: the accepted blocks one after the other
ProcessedRelocsWords(blocks) ==
    Sparse(Flatten([n \in 1..Len(blocks) |-> BlockWords(blocks[n])]))

\* PaddedStringTable: the length, the strings from byte 4 on, the padding
PaddedStringTableWords(img, StringTableLength) ==
    Sparse(DwordWords(StringTableLength)
           \o BytesToWords(SubSeq(img.CoffStrings, 5, StringTableLength)))

\* OutHeader: one word for each field of the headers the model keeps, the
\* section headers after them; CheckSum takes the words 4 and 5
CheckSumAt == 4

OutHeaderWords(st, PointerToSymbolTable, CheckSum) ==
    Sparse(<<23117, Len(st.Sections), PointerToSymbolTable, st.SizeOfImage>>
           \o DwordWords(CheckSum) \o <<st.RelocDirSize>>
           \o Flatten([n \in 1..Len(st.Sections) |->
                 <<st.Sections[n].VirtualSize, st.Sections[n].VirtualAddress,
                   st.Sections[n].SizeOfRawData, st.Sections[n].PointerToRawData>>]))

\* CheckSum = 0xffff & (CheckSum + (CheckSum >> 16))
Fold(CheckSum) == (CheckSum + (CheckSum \div WordRange)) % WordRange

\* for (i = 0; i < n; i++) { CheckSum += Data[i]; fold }
RECURSIVE SumWords(_, _, _, _)
SumWords(CheckSum, Data, i, n) ==
    LET S == { j \in DOMAIN Data : i <= j /\ j < n }
    IN  IF S = {} THEN CheckSum
        ELSE LET j == CHOOSE m \in S : \A k \in S : m <= k
                 sum == Fold(CheckSum + Data[j])
             \* (the test makes sum a value before the next round)
             IN  IF sum < WordRange THEN SumWords(sum, Data, j + 1, n) ELSE sum

\* the data of output section Section and the number of its bytes that are
\* summed and written: the compacted relocations, the padded .rossym blob,
\* or the raw data of the input file
OutSectionData(img, st, relocs, R, Section) ==
    LET h == st.Sections[Section]
    IN  IF st.OutRelocSection = Section
        THEN [Data |-> ProcessedRelocsWords(relocs.ProcessedRelocs),
              SizeOfRawData |-> relocs.ProcessedRelocsLength]
        ELSE IF R.Length > 0 /\ Section = Len(st.Sections)
        THEN [Data |-> RosSymWords(R), SizeOfRawData |-> h.SizeOfRawData]
        ELSE [Data |-> InDataFrom(img, h.PointerToRawData, h.SizeOfRawData),
              SizeOfRawData |-> h.SizeOfRawData]

\* the checksum loop over the output sections: acc is CheckSum and Length
RECURSIVE OutSumSections(_, _, _, _, _, _)
OutSumSections(img, st, relocs, R, Section, acc) ==
    IF Section > Len(st.Sections) THEN acc
    ELSE LET d == OutSectionData(img, st, relocs, R, Section)
             CheckSum == SumWords(acc.CheckSum, d.Data, 0, d.SizeOfRawData \div 2)
             Length == acc.Length + st.Sections[Section].SizeOfRawData
         IN  IF CheckSum < WordRange /\ Length >= 0
             THEN OutSumSections(img, st, relocs, R, Section + 1,
                                 [CheckSum |-> CheckSum, Length |-> Length])
             ELSE acc

PaddedStringTableLength(img, PointerToSymbolTable, StringTableLength) ==
    LET PaddingFrom == (PointerToSymbolTable + StringTableLength) % img.FileAlignment
    IN  StringTableLength + (IF PaddingFrom # 0 THEN img.FileAlignment - PaddingFrom ELSE 0)

\* lines 1103 - 1167: the checksum of the header buffer, of the data of the
\* sections and of the padded string table, plus Length
OutCheckSum(img, st, relocs, R, StartOfRawData, PointerToSymbolTable, StringTableLength) ==
    LET hdr == SumWords(0, OutHeaderWords(st, PointerToSymbolTable, 0), 0, StartOfRawData \div 2)
        secs == OutSumSections(img, st, relocs, R, 1,
                               [CheckSum |-> hdr, Length |-> StartOfRawData])
        padded == PaddedStringTableLength(img, PointerToSymbolTable, StringTableLength)
    IN  IF PointerToSymbolTable # 0
        THEN SumWords(secs.CheckSum, PaddedStringTableWords(img, StringTableLength),
                      0, padded \div 2) + secs.Length + padded
        ELSE secs.CheckSum + secs.Length

\* fseek / fwrite of Size bytes of Data at offset At
WriteAt(At, Size, Data) ==
    [At |-> At, Size |-> Size,
     Data |-> [j \in { i \in DOMAIN Data : i < Size \div 2 } |-> Data[j]]]

\* lines 1169 - 1212: the header, the data of every section that has raw
\* data, the string table
OutWrites(img, st, relocs, R, StartOfRawData, PointerToSymbolTable, StringTableLength, CheckSum) ==
    <<WriteAt(0, StartOfRawData, OutHeaderWords(st, PointerToSymbolTable, CheckSum))>>
    \o Flatten([Section \in 1..Len(st.Sections) |->
          IF st.Sections[Section].SizeOfRawData = 0 THEN <<>>
          ELSE LET d == OutSectionData(img, st, relocs, R, Section)
               IN  <<WriteAt(st.Sections[Section].PointerToRawData, d.SizeOfRawData, d.Data)>>])
    \o (IF PointerToSymbolTable = 0 THEN <<>>
        ELSE <<WriteAt(PointerToSymbolTable,
                       PaddedStringTableLength(img, PointerToSymbolTable, StringTableLength),
                       PaddedStringTableWords(img, StringTableLength))>>)

\* the file the writes leave behind: its length, and the word at word offset
\* w (zero where nothing was written, the last write where several were)
OutFileLength(Writes) ==
    LET Ends == { Writes[i].At + Writes[i].Size :
                    i \in { k \in 1..Len(Writes) : Writes[k].Size > 0 } }
    IN  IF Ends = {} THEN 0 ELSE CHOOSE e \in Ends : \A f \in Ends : f <= e

OutFileAt(Writes, w) ==
    LET S == { i \in 1..Len(Writes) :
                 /\ Writes[i].At \div 2 <= w
                 /\ w < (Writes[i].At + Writes[i].Size) \div 2 }
    IN  IF S = {} THEN 0
        ELSE LET i == CHOOSE m \in S : \A k \in S : k <= m
                 j == w - Writes[i].At \div 2
             IN  IF j \in DOMAIN Writes[i].Data THEN Writes[i].Data[j] ELSE 0

OutFileWords(Writes) ==
    LET D == UNION { { Writes[i].At \div 2 + j : j \in DOMAIN Writes[i].Data } :
                     i \in 1..Len(Writes) }
    IN  [w \in { v \in D : OutFileAt(Writes, v) # 0 } |-> OutFileAt(Writes, w)]

\* CreateOutputFile: the file header, optional header and section table
\* that are written.  From is the index of the input section a header was
\* copied from (0 for the appended one).
CreateOutputFile(img, RosSymLength, RosSym) ==
    LET scan == OutScan(img, 1, [StringTableLength |-> 0, StartOfRawData |-> 0])
        relocs == ProcessRelocations(img)
        InRelocSectionIndex ==
            IF ~HasRelocations(img) THEN 0
            ELSE FindSectionForRVA(img.RelocDir.VirtualAddress, img.Sections)
        st0 == [Sections |-> <<>>, SizeOfImage |-> 0, RosSymOffset |-> 0,
                OutRelocSection |-> 0, StringTableLocation |-> scan.StartOfRawData,
                RelocDirSize |-> img.RelocDir.Size]
        st1 == OutCopy(img, 1, InRelocSectionIndex, st0)
        st2 == OutShrinkRelocs(img, st1, relocs.ProcessedRelocsLength)
        st3 == OutAppendRosSym(img, st2, RosSymLength)
        PointerToSymbolTable ==
            IF scan.StringTableLength # 0 THEN st3.StringTableLocation ELSE 0
        CheckSum == OutCheckSum(img, st3, relocs, RosSym, scan.StartOfRawData,
                                PointerToSymbolTable, scan.StringTableLength)
    IN  [Failed |-> relocs.Failed,
         StartOfRawData |-> scan.StartOfRawData,
         Sections |-> st3.Sections,
         NumberOfSections |-> Len(st3.Sections),
         SizeOfImage |-> st3.SizeOfImage,
         RelocDirSize |-> st3.RelocDirSize,
         OutRelocSection |-> st3.OutRelocSection,
         ProcessedRelocs |-> relocs.ProcessedRelocs,
         PointerToSymbolTable |-> PointerToSymbolTable,
         NumberOfSymbols |-> 0,
         StringTableLength |-> scan.StringTableLength,
         CheckSum |-> CheckSum,
         Writes |-> OutWrites(img, st3, relocs, RosSym, scan.StartOfRawData,
                              PointerToSymbolTable, scan.StringTableLength, CheckSum)]

-----------------------------------------------------------------------------
(* What the decoders can hand to the merger *)

\* RVA of the code section of the images, and their image base
FileAlignment == 2 ^ 9
SectionAlignment == 2 ^ 12
TextVA == SectionAlignment
ImageBase == 4 * SectionAlignment

Addresses == {0, TextVA + 1, TextVA + 2}

\* offsets of the strings of the blob the merger rows of MergeInit point into
MergeBlob == <<NUL, "a", NUL, "f", NUL, "g", NUL>>

\* a value no offset of a blob of the model takes: the content of memory the
\* program never wrote
WildOffset == UlongRange - 1

\* rows of the STABS decoder: rows of code addresses, and the all-zero row it
\* leaves when no record was accepted
StabRowSet ==
    { Row(a, 1, func, line) : a \in Addresses \ {0}, func \in {0, 3}, line \in {0, 1, 2} }
    \cup { ZeroRow }

CoffRowSet == { Row(a, 0, 5, 0) : a \in Addresses }

\* what uninitialised heap memory read as a row can hold
GarbageRows ==
    { Row(a, 0, func, line) :
        a \in Addresses \cup {WildOffset}, func \in {0, WildOffset}, line \in {0, 1} }

\* what the slot malloc returned to ConvertCoffs can hold
UninitRows ==
    { Row(a, 0, func, line) : a \in {0, TextVA + 1}, func \in {0, WildOffset}, line \in {0, 1} }

\* what Current[-1].FileOffset can read in front of the STABS rows
GarbageFiles == { Row(0, file, 0, 0) : file \in {0, WildOffset} }

SeqsUpTo(S, n) == UNION { [1..k -> S] : k \in 0..n }

\* ConvertStabs and ConvertDbgHelp end with a qsort of their rows
StabRowLists == UNION { QSort(s) : s \in SeqsUpTo(StabRowSet, MaxStabRows) }

\* ConvertCoffs: one row per function, then the row Current is left on (zeroed
\* by memset after a function row, never written when no record qualified),
\* then qsort
CoffRowLists ==
    UNION { QSort(Append(s, ZeroRow)) : s \in SeqsUpTo(CoffRowSet, MaxCoffFuncs) \ {<<>>} }
    \cup { <<g>> : g \in GarbageRows }

NoIntern == [str |-> <<>>, off |-> 0, before |-> <<>>, calls |-> 0, decoder |-> ""]
NoMerge == [Stab |-> <<>>, Coff |-> <<>>, Reads |-> {}, Overrides |-> <<>>,
            Unsorted |-> <<>>]
NoRosSym == [Length |-> 0, Symbols |-> <<>>, Strings |-> <<>>]
NoFile == [Opened |-> FALSE]
NoImage == [Magic |-> "MZ"]

\* main(), lines 1450 - 1468: the call of MergeStabsAndCoffs
DoMerge ==
    /\ pc = "merge"
    /\ \E Past \in GarbageRows :
         \E m \in {MergeUnsorted(StabSymbols, CoffSymbols, Past)} :
             /\ MergedSymbols' \in MergeSorted(m.Merged)
             /\ CoffSymbols' = m.Coff
             /\ merge' = [Stab |-> StabSymbols, Coff |-> CoffSymbols,
                          Reads |-> m.Reads, Overrides |-> m.Overrides,
                          Unsorted |-> m.Merged]
    /\ pc' = "merged"
    /\ UNCHANGED <<FileData, exit, UseDbgHelp, StringsBase, StringsCapacity,
                   StringHash, intern, StabSymbols, RosSymSection, OutFile>>

-----------------------------------------------------------------------------
(* The merger on every pair of row lists the decoders can produce *)

MergeInit ==
    /\ pc = "merge"
    /\ FileData = NoImage
    /\ exit = "running"
    /\ UseDbgHelp = FALSE
    /\ StringsBase = MergeBlob
    /\ StringsCapacity = Len(MergeBlob)
    /\ StringHash = <<>>
    /\ intern = NoIntern
    /\ StabSymbols \in StabRowLists
    /\ CoffSymbols \in CoffRowLists
    /\ MergedSymbols = <<>>
    /\ merge = NoMerge
    /\ RosSymSection = NoRosSym
    /\ OutFile = NoFile

NextMerge == DoMerge

SpecMerge == MergeInit /\ [][NextMerge]_vars

-----------------------------------------------------------------------------
(* The images main() is run on *)

MaxStabEntries == 2
MaxLines == 2

Sect(Name, VirtualAddress, VirtualSize, PointerToRawData, SizeOfRawData) ==
    [Name |-> Name, VirtualAddress |-> VirtualAddress, VirtualSize |-> VirtualSize,
     PointerToRawData |-> PointerToRawData, SizeOfRawData |-> SizeOfRawData]

DotText == <<".", "t", "e", "x", "t">>
DotReloc == <<".", "r", "e", "l", "o", "c">>

\* .stabstr: "" at 0, "a.c" at 1, "f:F" at 5, "d/" at 9, "g:F" at 12
StabStrings ==
    <<NUL, "a", ".", "c", NUL, "f", ":", "F", NUL, "d", "/", NUL, "g", ":", "F", NUL>>

StabEntry(n_type, n_desc, n_value, n_strx) ==
    [n_type |-> n_type, n_desc |-> n_desc, n_value |-> n_value, n_strx |-> n_strx]

StabMenu ==
    { StabEntry("N_SO", 0, ImageBase + TextVA + 1, 1),
      StabEntry("N_SO", 0, ImageBase + TextVA + 1, 9),
      StabEntry("N_FUN", 1, ImageBase + TextVA + 1, 5),
      StabEntry("N_FUN", 2, ImageBase + TextVA + 2, 12),
      StabEntry("N_FUN", 0, 0, 0),
      StabEntry("N_SLINE", 1, 0, 0),
      StabEntry("N_SLINE", 2, 1, 0),
      StabEntry("N_UNDF", 0, 0, 0) }

\* the COFF string table: its 4 length bytes, "_ab" at 4, ".debug_a" at 8
CoffStrings ==
    <<"#", "#", "#", "#", "_", "a", "b", NUL,
      ".", "d", "e", "b", "u", "g", "_", "a", NUL>>

CoffEntry(isfcn, e_sclass, e_scnum, e_value, e_zeroes, e_offset, e_name, e_numaux) ==
    [isfcn |-> isfcn, e_sclass |-> e_sclass, e_scnum |-> e_scnum, e_value |-> e_value,
     e_zeroes |-> e_zeroes, e_offset |-> e_offset, e_name |-> e_name,
     e_numaux |-> e_numaux]

\* f and _g@4 in section 1, a long name, an absolute symbol, a section symbol
\* with its auxiliary record (read as a symbol it would be a function), and a
\* symbol of a section the image does not have
CoffInputs ==
    LET CoffF == CoffEntry(TRUE, "C_EXT", 1, 1, 1, 0, <<"f">>, 0)
        CoffG == CoffEntry(FALSE, "C_EXT", 1, 2, 1, 0, <<"_", "g", "@", "4">>, 0)
        CoffLong == CoffEntry(TRUE, "C_EXT", 1, 2, 0, 4, <<>>, 0)
        CoffAbs == CoffEntry(FALSE, "C_EXT", 0, 0, 1, 0, <<"a">>, 0)
        CoffStat == CoffEntry(FALSE, "C_STAT", 1, 0, 1, 0, DotText, 1)
        CoffAux == CoffEntry(TRUE, "C_EXT", 1, 2, 1, 0, <<"b">>, 0)
        CoffBad == CoffEntry(TRUE, "C_EXT", 9, 0, 1, 0, <<"b">>, 0)
    IN  { <<>>, <<CoffStat, CoffAux>>, <<CoffG>>, <<CoffF, CoffAbs>>, <<CoffF, CoffG>>,
          <<CoffStat, CoffAux, CoffLong>>, <<CoffF, CoffBad>> }

LineInfoOf(FileName, Symbol, SymFound, Address, LineNumber) ==
    [FileName |-> FileName, Symbol |-> Symbol, SymFound |-> SymFound,
     Address |-> Address, LineNumber |-> LineNumber]

LineMenu ==
    LET PathBAC == <<"b", "/", "a", "/", "c">>
    IN  { LineInfoOf(PathBAC, <<"f">>, TRUE, ImageBase + TextVA + 1, 1),
          LineInfoOf(PathBAC, <<"f">>, TRUE, ImageBase + TextVA + 2, 2),
          LineInfoOf(<<"a", ".", "c">>, <<"g">>, TRUE, ImageBase + TextVA + 2, 3),
          LineInfoOf(PathBAC, <<>>, FALSE, ImageBase + TextVA + 2, 4) }

TextOnly == << Sect(DotText, TextVA, 100, 2 * FileAlignment, FileAlignment) >>

\* a .stab section without raw data
WithEmptyStab ==
    << Sect(DotText, TextVA, 100, 2 * FileAlignment, FileAlignment),
       Sect(DotStab, 2 * TextVA, 0, 0, 0) >>

WithStabs ==
    << Sect(DotText, TextVA, 100, 2 * FileAlignment, FileAlignment),
       Sect(DotStab, 2 * TextVA, 100, 3 * FileAlignment, FileAlignment),
       Sect(DotStabStr, 3 * TextVA, 100, 4 * FileAlignment, FileAlignment) >>

Image(Sections, StabEntries, CoffEntries, Lines, SourceFiles) ==
    [Magic |-> "MZ", FileSize |-> 8 * FileAlignment, Sections |-> Sections,
     StabEntries |-> StabEntries, StabStrings |-> StabStrings,
     CoffEntries |-> CoffEntries, CoffStrings |-> CoffStrings,
     PointerToSymbolTable |-> IF CoffEntries = <<>> THEN 0 ELSE 5 * FileAlignment,
     NumberOfSymbols |-> Len(CoffEntries),
     Lines |-> Lines, SourceFiles |-> SourceFiles,
     ImageBase |-> ImageBase, ModBase |-> ImageBase,
     RelocDir |-> [VirtualAddress |-> 0, Size |-> 0], RelocBlocks |-> <<>>,
     SectionAlignment |-> SectionAlignment, FileAlignment |-> FileAlignment]

Images ==
    { Image(WithStabs, s, c, <<>>, {}) :
        s \in SeqsUpTo(StabMenu, MaxStabEntries), c \in CoffInputs }
    \cup
    { Image(TextOnly, <<>>, c, l, f) :
        c \in CoffInputs, l \in SeqsUpTo(LineMenu, MaxLines),
        f \in { {}, {<<"a", "/", "c">>} } }
    \cup
    { Image(WithEmptyStab, <<>>, <<CoffEntry(TRUE, "C_EXT", 1, 1, 1, 0, <<"f">>, 0)>>, l, {}) :
        l \in SeqsUpTo(LineMenu, MaxLines) }
    \cup
    \* files that end in front of the .stab records, of the COFF symbol table
    \* and of the raw data of .text
    { [Image(WithStabs, <<StabEntry("N_FUN", 1, ImageBase + TextVA + 1, 5)>>,
             <<>>, <<>>, {}) EXCEPT !.FileSize = 3 * FileAlignment],
      [Image(TextOnly, <<>>, <<CoffEntry(TRUE, "C_EXT", 1, 1, 1, 0, <<"f">>, 0)>>,
             <<>>, {}) EXCEPT !.FileSize = 5 * FileAlignment],
      [Image(TextOnly, <<>>, <<>>,
             <<LineInfoOf(<<"b", "/", "a", "/", "c">>, <<"f">>, TRUE,
                          ImageBase + TextVA + 1, 1)>>,
             {<<"a", "/", "c">>}) EXCEPT !.FileSize = 2 * FileAlignment] }
    \cup
    { [Magic |-> "ELF"], [Magic |-> "other"] }

-----------------------------------------------------------------------------
(* main() *)

Exit(status) ==
    /\ pc' = "exit"
    /\ exit' = status

ReadImageElfFails ==
    /\ pc = "start"
    /\ IF FileData.Magic # "MZ"
       THEN Exit("1")
       ELSE /\ pc' = IF GetStabInfo(FileData).StabSymbolsLength = 0
                     THEN "ConvertDbgHelp" ELSE "ConvertStabs"
            /\ exit' = exit
    /\ UNCHANGED <<FileData, UseDbgHelp, StringsBase, StringsCapacity, StringHash,
                   intern, StabSymbols, CoffSymbols, MergedSymbols, merge,
                   RosSymSection, OutFile>>

\* a main() that takes the STABS decoder whenever a .stab section exists
ReadImageByPresence ==
    /\ pc = "start"
    /\ IF FileData.Magic # "MZ"
       THEN Exit(IF FileData.Magic = "ELF" THEN "0" ELSE "1")
       ELSE /\ pc' = IF LastSection(FileData.Sections, DotStab) = 0
                     THEN "ConvertDbgHelp" ELSE "ConvertStabs"
            /\ exit' = exit
    /\ UNCHANGED <<FileData, UseDbgHelp, StringsBase, StringsCapacity, StringHash,
                   intern, StabSymbols, CoffSymbols, MergedSymbols, merge,
                   RosSymSection, OutFile>>

\* lines 1300 - 1346: the magic numbers and GetStabInfo
ReadImage ==
    /\ pc = "start"
    /\ IF FileData.Magic # "MZ"
       THEN Exit(IF FileData.Magic = "ELF" THEN "0" ELSE "1")
       ELSE /\ pc' = IF GetStabInfo(FileData).StabSymbolsLength = 0
                     THEN "ConvertDbgHelp" ELSE "ConvertStabs"
            /\ exit' = exit
    /\ UNCHANGED <<FileData, UseDbgHelp, StringsBase, StringsCapacity, StringHash,
                   intern, StabSymbols, CoffSymbols, MergedSymbols, merge,
                   RosSymSection, OutFile>>

\* lines 1346 - 1385 and 1418 - 1427: ConvertDbgHelp, GetCoffInfo, realloc
DoConvertDbgHelp ==
    /\ pc = "ConvertDbgHelp"
    /\ \E r \in {ConvertDbgHelp(FileData)},
          Fault \in IF GetCoffInfo(FileData).Beyond THEN BOOLEAN ELSE {FALSE} :
           IF r.Crashed \/ Fault
           THEN /\ Exit("crash")
                /\ UNCHANGED <<UseDbgHelp, StringsBase, StringsCapacity, StabSymbols>>
           ELSE /\ pc' = "ConvertCoffs"
                /\ exit' = exit
                /\ UseDbgHelp' = TRUE
                /\ StringsBase' = r.Strings
                /\ StringsCapacity' = Len(r.Strings) + GetCoffInfo(FileData).CoffStringsLength
                /\ StabSymbols' \in QSort(r.Rows)
    /\ UNCHANGED <<FileData, StringHash, intern, CoffSymbols, MergedSymbols, merge,
                   RosSymSection, OutFile>>

\* lines 1374 - 1417: GetCoffInfo, malloc, ConvertStabs
DoConvertStabs ==
    /\ pc = "ConvertStabs"
    /\ \E Before \in GarbageFiles,
          Fault \in IF GetStabInfo(FileData).Beyond \/ GetCoffInfo(FileData).Beyond
                    THEN BOOLEAN ELSE {FALSE} :
         \E r \in {ConvertStabs(FileData, <<NUL>>, Before)} :
         LET info == GetCoffInfo(FileData)
         IN  /\ StringsCapacity' = 1 + 0 + info.CoffStringsLength
                    + (info.CoffSymbolsLength \div RosSymEntrySize) * (E_SYMNMLEN + 1)
             /\ IF r.Failed
                THEN /\ Exit("1")
                     /\ UNCHANGED <<StringsBase, StabSymbols>>
                ELSE IF Fault
                THEN /\ Exit("crash")
                     /\ UNCHANGED <<StringsBase, StabSymbols>>
                ELSE /\ pc' = "ConvertCoffs"
                     /\ exit' = exit
                     /\ StringsBase' = r.Strings
                     /\ StabSymbols' \in QSort(r.Rows)
    /\ UNCHANGED <<FileData, UseDbgHelp, StringHash, intern, CoffSymbols,
                   MergedSymbols, merge, RosSymSection, OutFile>>

\* lines 1429 - 1448: ConvertCoffs.  Without a symbol table the decoder asks
\* for malloc(0), which the C library may answer with NULL: the decoder then
\* fails.
DoConvertCoffs ==
    /\ pc = "ConvertCoffs"
    /\ \E Uninit \in UninitRows,
          MallocNull \in IF GetCoffInfo(FileData).CoffSymbolsLength = 0
                         THEN BOOLEAN ELSE {FALSE} :
         \E r \in {ConvertCoffs(FileData, StringsBase, Uninit)},
            Fault \in IF GetCoffInfo(FileData).Beyond THEN BOOLEAN ELSE {FALSE} :
             IF Fault
             THEN /\ Exit("crash")
                  /\ UNCHANGED <<StringsBase, CoffSymbols>>
             ELSE IF r.Failed \/ MallocNull
             THEN /\ Exit("1")
                  /\ UNCHANGED <<StringsBase, CoffSymbols>>
             ELSE /\ pc' = "merge"
                  /\ exit' = exit
                  /\ StringsBase' = r.Strings
                  /\ CoffSymbols' \in QSort(r.Rows)
    /\ UNCHANGED <<FileData, UseDbgHelp, StringsCapacity, StringHash, intern,
                   StabSymbols, MergedSymbols, merge, RosSymSection, OutFile>>

\* lines 1470 - 1518: the .rossym blob
DoRosSym ==
    /\ pc = "merged"
    /\ RosSymSection' =
         IF Len(MergedSymbols) = 0 THEN NoRosSym
         ELSE [Length |-> SymbolFileHeaderSize
                            + Len(MergedSymbols) * RosSymEntrySize + Len(StringsBase),
               Symbols |-> MergedSymbols, Strings |-> StringsBase]
    /\ pc' = "CreateOutputFile"
    /\ UNCHANGED <<FileData, exit, UseDbgHelp, StringsBase, StringsCapacity,
                   StringHash, intern, StabSymbols, CoffSymbols, MergedSymbols, merge,
                   OutFile>>

\* lines 1519 - 1554: the output file.  The raw data of the sections that are
\* kept and the string table are copied from the input buffer, wherever the
\* headers say they are.  CreateOutputFile keeps the headers in
\* a buffer of StartOfRawData bytes; when no surviving section has raw data
\* that is malloc(0), which returns NULL (failure) or a block the header
\* copies overrun: the process crashes, or goes on and writes the 0 bytes of
\* the buffer, that is no header at all.
DoCreateOutputFile ==
    /\ pc = "CreateOutputFile"
    /\ \E out \in {CreateOutputFile(FileData, RosSymSection.Length, RosSymSection)} :
       LET Beyond ==
               \/ \E k \in 1..Len(out.Sections) :
                     /\ out.Sections[k].From # 0
                     /\ BeyondFile(FileData, out.Sections[k].PointerToRawData,
                                   out.Sections[k].SizeOfRawData)
               \/ BeyondFile(FileData,
                             FileData.PointerToSymbolTable
                                + CoffSymentSize * FileData.NumberOfSymbols,
                             out.StringTableLength)
           Outcomes == (IF out.StartOfRawData = 0
                        THEN {"1", "crash"} \cup (IF out.Failed THEN {} ELSE {"0"})
                        ELSE {IF out.Failed THEN "1" ELSE "0"})
                       \cup (IF Beyond /\ ~out.Failed THEN {"crash"} ELSE {})
       IN  \E Opened \in BOOLEAN :
             IF ~Opened
             THEN \* fopen(path2, "wb") returned NULL
                  /\ OutFile' = OutFile
                  /\ Exit("1")
             ELSE \E status \in Outcomes :
                    /\ OutFile' = [Opened |-> TRUE,
                                   HeaderWritten |-> status = "0" /\ out.StartOfRawData # 0,
                                   Out |-> out]
                    /\ Exit(status)
    /\ UNCHANGED <<FileData, UseDbgHelp, StringsBase, StringsCapacity, StringHash,
                   intern, StabSymbols, CoffSymbols, MergedSymbols, merge,
                   RosSymSection>>

Init ==
    /\ pc = "start"
    /\ FileData \in Images
    /\ exit = "running"
    /\ UseDbgHelp = FALSE
    /\ StringsBase = <<>>
    /\ StringsCapacity = 0
    /\ StringHash = <<>>
    /\ intern = NoIntern
    /\ StabSymbols = <<>>
    /\ CoffSymbols = <<>>
    /\ MergedSymbols = <<>>
    /\ merge = NoMerge
    /\ RosSymSection = NoRosSym
    /\ OutFile = NoFile

Next ==
    \/ ReadImage
    \/ DoConvertDbgHelp
    \/ DoConvertStabs
    \/ DoConvertCoffs
    \/ DoMerge
    \/ DoRosSym
    \/ DoCreateOutputFile

Spec == Init /\ [][Next]_vars

-----------------------------------------------------------------------------
(* The interning done by the two decoders, one FindOrAddString call a step *)

InternInit ==
    /\ pc = "ConvertStabs"
    /\ FileData = NoImage
    /\ exit = "running"
    /\ UseDbgHelp = FALSE
    /\ StringsBase = <<NUL>>
    /\ StringsCapacity = 0
    /\ StringHash = StringHashTableInit(<<NUL>>)
    /\ intern = NoIntern
    /\ StabSymbols = <<>>
    /\ CoffSymbols = <<>>
    /\ MergedSymbols = <<>>
    /\ merge = NoMerge
    /\ RosSymSection = NoRosSym
    /\ OutFile = NoFile

\* a decoder interns the name of a record; "b!" and "aB" have the same hash
Intern ==
    /\ pc \in {"ConvertStabs", "ConvertCoffs"}
    /\ intern.calls < MaxInterns
    /\ \E str \in { <<>>, <<"a">>, <<"a", ".", "c">>, <<"b", "!">>, <<"a", "B">> } :
         LET r == FindOrAddString(StringHash, str, StringsBase)
         IN  /\ StringsBase' = r.Strings
             /\ StringHash' = r.Table
             /\ intern' = [str |-> str, off |-> r.Offset, before |-> StringsBase,
                           calls |-> intern.calls + 1, decoder |-> pc]
    /\ UNCHANGED <<pc, FileData, exit, UseDbgHelp, StringsCapacity, StabSymbols,
                   CoffSymbols, MergedSymbols, merge, RosSymSection, OutFile>>

\* ConvertStabs frees its hash table and returns; ConvertCoffs builds its own
\* from the blob with StringHashTableInit
NextDecoder ==
    /\ pc = "ConvertStabs"
    /\ pc' = "ConvertCoffs"
    /\ StringHash' = StringHashTableInit(StringsBase)
    /\ UNCHANGED <<FileData, exit, UseDbgHelp, StringsBase, StringsCapacity, intern,
                   StabSymbols, CoffSymbols, MergedSymbols, merge, RosSymSection,
                   OutFile>>

NextIntern == Intern \/ NextDecoder

SpecIntern == InternInit /\ [][NextIntern]_vars

-----------------------------------------------------------------------------
(* The writer on images of every section layout *)

MaxSections == 3

DotBss == <<".", "b", "s", "s">>

\* the section names of the layouts; "/8" names ".debug_a" and "/4" names
\* "_ab" in CoffStrings
SectionNames ==
    { DotText, DotBss, DotReloc, DotStab, DotStabStr, <<".", "d", "e", "b", "u", "g">>,
      <<"/", "8">>, <<"/", "4">> }

\* section k of a layout: a section alignment apart in memory and a file
\* alignment apart in the file; .bss has no raw data
LayoutSection(Name, k, fa, sa) ==
    IF Name = DotBss THEN Sect(Name, k * sa, 20, 0, 0)
    ELSE Sect(Name, k * sa, 20, (k + 1) * fa, fa)

Layout(names, fa, sa) == [k \in 1..Len(names) |-> LayoutSection(names[k], k, fa, sa)]

FirstReloc(names) ==
    LET S == { k \in 1..Len(names) : names[k] = DotReloc }
    IN  IF S = {} THEN 0 ELSE CHOOSE k \in S : \A m \in S : k <= m

\* relocation blocks: one of the first section, the same one again, and one
\* that lies in no section
LayoutRelocBlocks(sa) ==
    << [VirtualAddress |-> sa, SizeOfBlock |-> 12, Data |-> "x"],
       [VirtualAddress |-> sa, SizeOfBlock |-> 12, Data |-> "x"],
       [VirtualAddress |-> 0, SizeOfBlock |-> 8, Data |-> "y"] >>

LayoutImage(names, fa, sa) ==
    [Image(Layout(names, fa, sa), <<>>,
           <<CoffEntry(FALSE, "C_EXT", 1, 2, 1, 0, <<"_", "g", "@", "4">>, 0)>>,
           <<>>, {}) EXCEPT
        !.RelocDir = IF FirstReloc(names) = 0 THEN [VirtualAddress |-> 0, Size |-> 0]
                     ELSE [VirtualAddress |-> FirstReloc(names) * sa,
                           Size |-> BlocksLength(LayoutRelocBlocks(sa))],
        !.RelocBlocks = IF FirstReloc(names) = 0 THEN <<>> ELSE LayoutRelocBlocks(sa),
        !.FileAlignment = fa,
        !.SectionAlignment = sa]

LayoutImages ==
    { LayoutImage(names, a[1], a[2]) :
        names \in SeqsUpTo(SectionNames, MaxSections),
        a \in { <<FileAlignment, SectionAlignment>>, <<2 ^ 5, 2 ^ 6>> } }

MergedTables ==
    { <<>>,
      << Row(TextVA + 1, 1, 3, 1) >>,
      << Row(TextVA + 1, 1, 3, 1), Row(TextVA + 2, 0, 5, 0) >>,
      << Row(TextVA + 1, 1, 3, 1), Row(TextVA + 2, 1, 3, 2), Row(TextVA + 2, 0, 5, 0) >> }

OutputInit ==
    /\ pc = "merged"
    /\ FileData \in LayoutImages
    /\ exit = "running"
    /\ UseDbgHelp = FALSE
    /\ StringsBase = MergeBlob
    /\ StringsCapacity = Len(MergeBlob)
    /\ StringHash = <<>>
    /\ intern = NoIntern
    /\ StabSymbols = <<>>
    /\ CoffSymbols = <<>>
    /\ MergedSymbols \in MergedTables
    /\ merge = NoMerge
    /\ RosSymSection = NoRosSym
    /\ OutFile = NoFile

NextOutput == DoRosSym \/ DoCreateOutputFile

SpecOutput == OutputInit /\ [][NextOutput]_vars

-----------------------------------------------------------------------------
(* The writer on images of every relocation directory *)

MaxBlocks == 3

\* the blocks of the directories: two of the first section that differ in
\* their entries, two without entries whose bytes are the same, one of the
\* stripped third section, one that lies in no section, and a terminator
BlockMenu ==
    { [VirtualAddress |-> SectionAlignment, SizeOfBlock |-> 12, Data |-> "x"],
      [VirtualAddress |-> SectionAlignment, SizeOfBlock |-> 12, Data |-> "y"],
      [VirtualAddress |-> SectionAlignment, SizeOfBlock |-> 8, Data |-> "x"],
      [VirtualAddress |-> SectionAlignment, SizeOfBlock |-> 8, Data |-> "y"],
      [VirtualAddress |-> 3 * SectionAlignment, SizeOfBlock |-> 8, Data |-> "x"],
      [VirtualAddress |-> 0, SizeOfBlock |-> 8, Data |-> "x"],
      [VirtualAddress |-> SectionAlignment, SizeOfBlock |-> 0, Data |-> "x"] }

\* the sizes of a directory over blocks: all of them, an end inside the last
\* block, an end in front of the last block
DirectorySizes(blocks) ==
    { n \in { BlocksLength(blocks), BlocksLength(blocks) - 4,
              BlocksLength(SubSeq(blocks, 1, Len(blocks) - 1)) } : n >= 0 }

RelocImage(blocks, Size) ==
    [LayoutImage(<<DotText, DotReloc, DotStab>>, FileAlignment, SectionAlignment) EXCEPT
        !.RelocDir = [VirtualAddress |-> 2 * SectionAlignment, Size |-> Size],
        !.RelocBlocks = blocks]

RelocsInit ==
    /\ pc = "merged"
    /\ \E blocks \in SeqsUpTo(BlockMenu, MaxBlocks) :
          \E Size \in DirectorySizes(blocks) : FileData = RelocImage(blocks, Size)
    /\ exit = "running"
    /\ UseDbgHelp = FALSE
    /\ StringsBase = MergeBlob
    /\ StringsCapacity = Len(MergeBlob)
    /\ StringHash = <<>>
    /\ intern = NoIntern
    /\ StabSymbols = <<>>
    /\ CoffSymbols = <<>>
    /\ MergedSymbols = <<>>
    /\ merge = NoMerge
    /\ RosSymSection = NoRosSym
    /\ OutFile = NoFile

NextRelocs == DoRosSym \/ DoCreateOutputFile

SpecRelocs == RelocsInit /\ [][NextRelocs]_vars

-----------------------------------------------------------------------------
(* Claims about the merged table *)

\* C1: the final merged table is ordered by address ascending: for all
\* i < j, entries[i].address <= entries[j].address.
C1_MergedSortedByAddress ==
    pc = "merged" =>
        \A i, j \in 1..Len(MergedSymbols) :
            i < j => MergedSymbols[i].Address <= MergedSymbols[j].Address

\* a merge that appended a COFF row behind a STABS row of a higher address
C1_Witness ==
    /\ pc = "merged"
    /\ \E i, j \in 1..Len(merge.Unsorted) :
          i < j /\ merge.Unsorted[i].Address > merge.Unsorted[j].Address

\* C3: the final merged table never contains two distinct rows with the same
\* (address, line) pair where line != 0.
C3_NoDuplicateAddressLine ==
    pc = "merged" =>
        \A i, j \in 1..Len(MergedSymbols) :
            (/\ i # j
             /\ MergedSymbols[i].Address = MergedSymbols[j].Address
             /\ MergedSymbols[i].SourceLine = MergedSymbols[j].SourceLine)
            => MergedSymbols[i].SourceLine = 0

\* a COFF row that no record wrote is appended behind a STABS row of the same
\* address and line
C3_Witness ==
    /\ pc = "merged"
    /\ \E i, j \in 1..Len(MergedSymbols) :
          /\ i # j
          /\ MergedSymbols[i].Address = MergedSymbols[j].Address
          /\ MergedSymbols[i].SourceLine = MergedSymbols[j].SourceLine
          /\ MergedSymbols[i].SourceLine # 0

\* the rows of a sorted table that share an address and of which exactly one
\* has line 0: is the row in front the one with (ZeroFirst) or without line 0
TieBreak(rows, ZeroFirst) ==
    \A i, j \in 1..Len(rows) :
        (/\ i < j
         /\ rows[i].Address = rows[j].Address
         /\ (rows[i].SourceLine = 0) # (rows[j].SourceLine = 0))
        => ((rows[i].SourceLine = 0) <=> ZeroFirst)

\* C2 (as stated): in the sorted tables of the STABS decoder and of the merger,
\* of two rows of one address of which exactly one has line == 0, the row with
\* line == 0 comes first.
C2_ZeroLineFirst ==
    /\ TieBreak(StabSymbols, TRUE)
    /\ pc = "merged" => TieBreak(MergedSymbols, TRUE)

\* C2 (amended): of two rows of one address of which exactly one has
\* line == 0, the row with line != 0 comes first.
C2_ZeroLineLast ==
    /\ TieBreak(StabSymbols, FALSE)
    /\ pc = "merged" => TieBreak(MergedSymbols, FALSE)

\* the merged table holds a row with a line and a row without at one address
C2_Witness ==
    /\ pc = "merged"
    /\ \E i, j \in 1..Len(MergedSymbols) :
          /\ MergedSymbols[i].Address = MergedSymbols[j].Address
          /\ MergedSymbols[i].SourceLine = 0
          /\ MergedSymbols[j].SourceLine # 0
    /\ \E i, j \in 1..Len(StabSymbols) :
          /\ StabSymbols[i].Address = StabSymbols[j].Address
          /\ StabSymbols[i].SourceLine = 0
          /\ StabSymbols[j].SourceLine # 0

HasRow(rows, a) == \E k \in 1..Len(rows) : rows[k].Address = a

HasRowLine(rows, a, line) ==
    \E k \in 1..Len(rows) : rows[k].Address = a /\ rows[k].SourceLine = line

\* C8 (as stated): every address of a STABS / iterator row, and of a COFF row
\* that carries a function name, is the address of a merged row, and every
\* STABS row with a non-zero line has a merged row of its address and line.
C8_EveryAddressKept ==
    pc = "merged" =>
        /\ \A k \in 1..Len(merge.Stab) :
              /\ HasRow(MergedSymbols, merge.Stab[k].Address)
              /\ merge.Stab[k].SourceLine # 0 =>
                    HasRowLine(MergedSymbols, merge.Stab[k].Address,
                               merge.Stab[k].SourceLine)
        /\ \A k \in 1..Len(merge.Coff) :
              merge.Coff[k].FunctionOffset # 0 =>
                    HasRow(MergedSymbols, merge.Coff[k].Address)

\* the first non-zero line of the sorted STABS rows of address a, 0 if none
FirstLineAt(Stab, a) ==
    LET S == { k \in 1..Len(Stab) : Stab[k].Address = a /\ Stab[k].SourceLine # 0 }
    IN  IF S = {} THEN 0
        ELSE Stab[CHOOSE k \in S : \A m \in S : k <= m].SourceLine

\* C8 (amended): every address of a STABS / iterator row is the address of a
\* merged row, which carries the first non-zero line of the sorted STABS rows
\* of that address; a COFF row that carries a function name has a merged row
\* of its own when there is a STABS row at all, its address is not 0 and its
\* name was not moved to a STABS row by an override.
C8_StabAddressesKept ==
    pc = "merged" =>
        /\ \A k \in 1..Len(merge.Stab) :
              HasRowLine(MergedSymbols, merge.Stab[k].Address,
                         FirstLineAt(merge.Stab, merge.Stab[k].Address))
        /\ \A k \in 1..Len(merge.Coff) :
              (/\ merge.Coff[k].FunctionOffset # 0
               /\ merge.Coff[k].Address # 0
               /\ Len(merge.Stab) > 0
               /\ \A o \in 1..Len(merge.Overrides) : merge.Overrides[o].Coff # k - 1)
              => \E m \in 1..Len(MergedSymbols) : MergedSymbols[m] = merge.Coff[k]

\* a merge of STABS rows with two lines at one address, with a COFF name
\* consumed by an override and another one appended
C8_Witness ==
    /\ pc = "merged"
    /\ Len(merge.Overrides) > 0
    /\ \E k \in 1..Len(merge.Coff) :
          /\ merge.Coff[k].FunctionOffset # 0
          /\ merge.Coff[k].Address # 0
          /\ \A o \in 1..Len(merge.Overrides) : merge.Overrides[o].Coff # k - 1
    /\ \E i, j \in 1..Len(merge.Stab) :
          /\ merge.Stab[i].Address = merge.Stab[j].Address
          /\ merge.Stab[i].SourceLine # 0
          /\ merge.Stab[j].SourceLine # 0
          /\ merge.Stab[i].SourceLine # merge.Stab[j].SourceLine

-----------------------------------------------------------------------------
(* Claims about a run of main() *)

Merged == pc \in {"merged", "CreateOutputFile", "exit"} /\ merge # NoMerge

\* off is the start of a NUL-terminated string that lies inside blob
IsStringStart(blob, off) ==
    /\ off < Len(blob)
    /\ off = 0 \/ blob[off] = NUL
    /\ \E k \in (off + 1)..Len(blob) : blob[k] = NUL

NamesString(blob, off) == off = 0 \/ IsStringStart(blob, off)

\* C4: after decoding and merging, every file_off and func_off of every
\* emitted row is 0 or the start offset of a string interned into the blob.
C4_OffsetsNameStrings ==
    Merged =>
        \A i \in 1..Len(MergedSymbols) :
            /\ NamesString(StringsBase, MergedSymbols[i].FileOffset)
            /\ NamesString(StringsBase, MergedSymbols[i].FunctionOffset)

\* a merged table with a row whose two offsets name strings of the blob, and
\* a row one of whose offsets was read from memory no decoder wrote
C4_Witness ==
    /\ Merged
    /\ \E i \in 1..Len(MergedSymbols) :
          /\ MergedSymbols[i].FileOffset # 0
          /\ MergedSymbols[i].FunctionOffset # 0
          /\ IsStringStart(StringsBase, MergedSymbols[i].FileOffset)
          /\ IsStringStart(StringsBase, MergedSymbols[i].FunctionOffset)
    /\ \E i \in 1..Len(MergedSymbols) :
          ~NamesString(StringsBase, MergedSymbols[i].FunctionOffset)

IsPrefix(s, t) == Len(s) <= Len(t) /\ SubSeq(t, 1, Len(s)) = s

\* C6: once the blob exists, on the STABS path and on the iterator path, its
\* byte 0 is NUL, and a step never rewrites or moves the bytes it holds: the
\* old blob is a prefix of the new one.
C6_BlobOnlyGrows ==
    /\ [](StringsBase # <<>> => StringsBase[1] = NUL)
    /\ [][IsPrefix(StringsBase, StringsBase')]_vars

\* on the iterator path, the COFF decoder has interned a name behind the
\* strings of the iterator's rows
C6_Witness ==
    /\ pc = "merge"
    /\ UseDbgHelp
    /\ \E i \in 1..Len(StabSymbols) : StabSymbols[i].FunctionOffset # 0
    /\ \E k \in 1..Len(CoffSymbols) :
          /\ CoffSymbols[k].FunctionOffset # 0
          /\ \A i \in 1..Len(StabSymbols) :
                /\ StabSymbols[i].FunctionOffset < CoffSymbols[k].FunctionOffset
                /\ StabSymbols[i].FileOffset < CoffSymbols[k].FunctionOffset

\* the rows of the COFF decoder that carry a name and a non-zero address
NamedCoffRows(Coff) == SelectSeq(Coff, LAMBDA c : c.Address # 0 /\ c.FunctionOffset # 0)

HasRosSym(Sections) == \E k \in 1..Len(Sections) : Sections[k].Name = DotRosSym

\* the run has written an output file with its headers
Written == pc = "exit" /\ exit = "0" /\ OutFile # NoFile /\ OutFile.HeaderWritten

\* C7 (as stated): with no STABS rows and no rows from the iterator, a COFF
\* table of n function / external symbols with non-zero addresses yields a
\* table of exactly n rows.
C7_CoffOnlyRows ==
    (Merged /\ merge.Stab = <<>>) =>
        Len(MergedSymbols) = Len(NamedCoffRows(merge.Coff))

\* C7 (amended): with no STABS rows and no rows from the iterator the merged
\* table is empty, whatever the COFF table holds, and the output file gets no
\* .rossym section.
C7_CoffOnlyNoRows ==
    (Merged /\ merge.Stab = <<>>) =>
        /\ MergedSymbols = <<>>
        /\ RosSymSection = NoRosSym
        /\ Written => ~HasRosSym(OutFile.Out.Sections)

\* the output file of an image without line information whose COFF table
\* holds two named symbols with non-zero addresses
C7_Witness ==
    /\ Written
    /\ merge.Stab = <<>>
    /\ Len(NamedCoffRows(merge.Coff)) = 2

-----------------------------------------------------------------------------
(* Claims about FindOrAddString *)

\* the offsets at which the strings of blob start, from offset o on
RECURSIVE StartsFrom(_, _)
StartsFrom(blob, o) ==
    IF o >= Len(blob) THEN {}
    ELSE {o} \cup StartsFrom(blob, o + StrLenAt(blob, o) + 1)

StoredAt(blob, str) == { o \in StartsFrom(blob, 0) : StrAt(blob, o) = str }

\* C5: interning a string that is already stored returns its offset and
\* leaves the blob unchanged; interning a new string appends it and a NUL at
\* the old end of the blob and returns that offset; no string is stored
\* twice, also across the hash tables the two decoders build.
C5_InternReturnsOneOffset ==
    /\ intern.calls > 0 =>
          IF StoredAt(intern.before, intern.str) # {}
          THEN /\ StringsBase = intern.before
               /\ intern.off \in StoredAt(intern.before, intern.str)
          ELSE /\ StringsBase = intern.before \o intern.str \o <<NUL>>
               /\ intern.off = Len(intern.before)
    /\ \A o1, o2 \in StartsFrom(StringsBase, 0) :
          StrAt(StringsBase, o1) = StrAt(StringsBase, o2) => o1 = o2

\* the COFF decoder interns "aB", which the STABS decoder stored behind "b!"
\* of the same hash
C5_Witness ==
    /\ intern.decoder = "ConvertCoffs"
    /\ intern.str = <<"a", "B">>
    /\ StringsBase = intern.before
    /\ StoredAt(StringsBase, <<"b", "!">>) # {}
    /\ \E o \in StoredAt(StringsBase, <<"b", "!">>) : o < intern.off

-----------------------------------------------------------------------------
(* Claims about the section table of the output file *)


\* the name of the section after a "/NN" title is looked up in the COFF
\* string table
ResolvedName(img, h) ==
    IF h.Name # <<>> /\ h.Name[1] = "/"
    THEN StrAt(img.CoffStrings, Atoi(Tail(h.Name)))
    ELSE h.Name

Survives(img, k) ==
    /\ ~StartsWith(ResolvedName(img, img.Sections[k]), DotStab)
    /\ ~StartsWith(ResolvedName(img, img.Sections[k]), DotDebug)

\* the indices of the input sections the output headers were copied from
CopiedFrom(Sections) ==
    LET kept == SelectSeq(Sections, LAMBDA h : h.From # 0)
    IN  [k \in 1..Len(kept) |-> kept[k].From]

\* the indices of the sections 1 .. n of img that survive, in ascending order
RECURSIVE SurvivingUpTo(_, _)
SurvivingUpTo(img, n) ==
    IF n = 0 THEN <<>>
    ELSE IF Survives(img, n) THEN Append(SurvivingUpTo(img, n - 1), n)
         ELSE SurvivingUpTo(img, n - 1)

\* C9: the output section table consists of exactly the input sections
\* whose resolved name starts with neither ".stab" nor ".debug_", in their
\* original order (in front of the .rossym section, if one is appended).
C9_DebugSectionsStripped ==
    Written =>
        LET out == OutFile.Out.Sections
            copied == CopiedFrom(out)
        IN  /\ copied = SurvivingUpTo(FileData, Len(FileData.Sections))
            /\ \A k \in 1..Len(copied) :
                  /\ out[k].From = copied[k]
                  /\ out[k].Name = FileData.Sections[copied[k]].Name
                  /\ out[k].VirtualAddress = FileData.Sections[copied[k]].VirtualAddress
                  /\ out[k].PointerToRawData = FileData.Sections[copied[k]].PointerToRawData

\* an output file of an image with a "/8" section that resolves to
\* ".debug_a", a "/4" section that resolves to "_ab", and a .stab section
C9_Witness ==
    /\ Written
    /\ \E k \in 1..Len(FileData.Sections) : FileData.Sections[k].Name = <<"/", "8">>
    /\ \E k \in 1..Len(FileData.Sections) : FileData.Sections[k].Name = DotStab
    /\ \E k \in 1..Len(OutFile.Out.Sections) :
          OutFile.Out.Sections[k].Name = <<"/", "4">>

\* C10: a .rossym header is appended as the last output section if and only
\* if the merged table is non-empty; it has VirtualSize = RosSymLength,
\* SizeOfRawData = RosSymLength rounded up to FileAlignment, and a
\* PointerToRawData not below the end of raw data of any surviving section.
C10_RosSymAppendedLast ==
    Written =>
        LET out == OutFile.Out.Sections
            appended == { k \in 1..Len(out) : out[k].From = 0 }
        IN  /\ (appended # {}) <=> (MergedSymbols # <<>>)
            /\ (appended # {}) <=> (RosSymSection.Length > 0)
            /\ \A k \in appended :
                  /\ k = Len(out)
                  /\ out[k].Name = DotRosSym
                  /\ out[k].VirtualSize = RosSymSection.Length
                  /\ out[k].SizeOfRawData >= RosSymSection.Length
                  /\ out[k].SizeOfRawData < RosSymSection.Length + FileData.FileAlignment
                  /\ out[k].SizeOfRawData % FileData.FileAlignment = 0
                  /\ \A m \in 1..(k - 1) :
                        out[m].PointerToRawData + out[m].SizeOfRawData
                            <= out[k].PointerToRawData

\* a .rossym header behind a relocation section that was compacted, of a
\* length that is not a multiple of the file alignment
C10_Witness ==
    /\ Written
    /\ Len(OutFile.Out.Sections) > 2
    /\ OutFile.Out.Sections[Len(OutFile.Out.Sections)].From = 0
    /\ OutFile.Out.OutRelocSection = Len(OutFile.Out.Sections) - 1
    /\ RosSymSection.Length > FileData.FileAlignment
    /\ RosSymSection.Length % FileData.FileAlignment # 0

-----------------------------------------------------------------------------
(* Claims about the checksum of the output file *)

\* the CheckSum field of the optional header of the file
StoredCheckSum(Writes) ==
    OutFileAt(Writes, CheckSumAt) + WordRange * OutFileAt(Writes, CheckSumAt + 1)

\* the standard checksum of a file: the folded sum of its 16-bit words, the
\* CheckSum field taken as zero, plus its length
PECheckSum(Writes) ==
    LET file == OutFileWords(Writes)
        zeroed == [w \in DOMAIN file \ {CheckSumAt, CheckSumAt + 1} |-> file[w]]
    IN  SumWords(0, zeroed, 0, OutFileLength(Writes) \div 2) + OutFileLength(Writes)

\* a stripped section lay between two surviving sections with raw data
HasGap(img, Sections) ==
    \E a, b \in 1..Len(Sections) :
        /\ Sections[a].From # 0 /\ Sections[b].From # 0
        /\ Sections[a].SizeOfRawData # 0 /\ Sections[b].SizeOfRawData # 0
        /\ \E k \in 1..Len(img.Sections) :
              /\ IsDebugSection(img, img.Sections[k])
              /\ Sections[a].PointerToRawData < img.Sections[k].PointerToRawData
              /\ img.Sections[k].PointerToRawData < Sections[b].PointerToRawData

\* C11 (as stated): for every output image the writer produces, gaps left by
\* stripped sections, compacted relocations and a carried string table
\* included, the CheckSum stored in the optional header is the standard PE
\* checksum of the bytes written.
C11_CheckSumMatchesFile ==
    Written => StoredCheckSum(OutFile.Out.Writes) = PECheckSum(OutFile.Out.Writes)

\* an output image with a gap where a stripped section was, and a .rossym
\* section behind it
C11_Witness ==
    /\ Written
    /\ HasGap(FileData, OutFile.Out.Sections)
    /\ HasRosSym(OutFile.Out.Sections)

-----------------------------------------------------------------------------
(* Claims about the relocation compactor *)

\* the blocks the walk reads: those in front of the first block of size 0
\* that start inside the directory
ReadBlocks(img) ==
    { n \in 1..Len(img.RelocBlocks) :
        \A m \in 1..n :
            /\ img.RelocBlocks[m].SizeOfBlock > 0
            /\ BlocksLength(SubSeq(img.RelocBlocks, 1, m - 1)) < img.RelocDir.Size }

\* the first occurrences, among the blocks read, of the blocks of some section
FirstOccurrences(img) ==
    { n \in ReadBlocks(img) :
        /\ FindSectionForRVA(img.RelocBlocks[n].VirtualAddress, img.Sections) # 0
        /\ \A m \in 1..(n - 1) : ~SameBlock(img.RelocBlocks[m], img.RelocBlocks[n]) }

\* the blocks 1 .. n of blocks whose index is in Keep, in their order
RECURSIVE PickBlocks(_, _, _)
PickBlocks(blocks, Keep, n) ==
    IF n = 0 THEN <<>>
    ELSE IF n \in Keep THEN Append(PickBlocks(blocks, Keep, n - 1), blocks[n])
         ELSE PickBlocks(blocks, Keep, n - 1)

-----------------------------------------------------------------------------
(* Claims about main *)

\* C13: when the input begins with the ELF magic bytes the run ends with
\* exit status 0 and the output file is never opened; the output file is
\* opened only after reading, decoding and merging have all succeeded, so a
\* run that exits without having reached the output stage of a PE image
\* (one that does not crash) exits with status 1, without an output file.
C13_OutputOnlyAfterSuccess ==
    /\ FileData.Magic = "ELF" =>
          /\ pc \in {"start", "exit"}
          /\ pc = "exit" => exit = "0"
          /\ OutFile = NoFile
    /\ OutFile # NoFile =>
          /\ FileData.Magic = "MZ"
          /\ pc = "exit"
          /\ Merged
          /\ RosSymSection.Length = 0 <=> MergedSymbols = <<>>
    /\ (pc = "exit" /\ OutFile = NoFile /\ FileData.Magic # "ELF" /\ exit # "crash") =>
          exit = "1"
    /\ (pc # "exit") => (exit = "running" /\ OutFile = NoFile)

\* a run on an ELF file that has ended
C13_Witness ==
    /\ FileData.Magic = "ELF"
    /\ pc = "exit"


-----------------------------------------------------------------------------
(* ConvertStabs record by record, on every short list of records *)

MaxStabRecords == 4

\* a source file, the functions f at TextVA + 1 and g at the image base, the
\* end of a function, two lines given relative to the function, one line
\* given by its absolute address and an include file
StabLineMenu ==
    { StabEntry("N_SO", 0, ImageBase + TextVA + 1, 1),
      StabEntry("N_FUN", 1, ImageBase + TextVA + 1, 5),
      StabEntry("N_FUN", 2, ImageBase, 12),
      StabEntry("N_FUN", 0, 0, 0),
      StabEntry("N_SLINE", 1, 0, 0),
      StabEntry("N_SLINE", 2, 1, 0),
      StabEntry("N_SLINE", 3, ImageBase + TextVA + 1, 0),
      StabEntry("N_SOL", 0, ImageBase + TextVA + 2, 12) }

StabsInit ==
    /\ pc = "ConvertStabs"
    /\ \E s \in SeqsUpTo(StabLineMenu, MaxStabRecords) :
         FileData = Image(WithStabs, s, <<>>, <<>>, {})
    /\ exit = "running"
    /\ UseDbgHelp = FALSE
    /\ StringsBase = <<NUL>>
    /\ StringsCapacity = 0
    /\ StringHash = <<>>
    /\ \E Before \in GarbageFiles :
         intern = [decoder |-> "ConvertStabs", i |-> 1, st |-> StabsStart(<<NUL>>, Before)]
    /\ StabSymbols = <<>>
    /\ CoffSymbols = <<>>
    /\ MergedSymbols = <<>>
    /\ merge = NoMerge
    /\ RosSymSection = NoRosSym
    /\ OutFile = NoFile

\* one round of the for loop
StabsStep ==
    /\ pc = "ConvertStabs"
    /\ intern.i <= Len(FileData.StabEntries)
    /\ ~intern.st.Failed
    /\ intern' = [intern EXCEPT
                    !.st = StabsRecord(intern.st, FileData.StabEntries[intern.i], FileData),
                    !.i = intern.i + 1]
    /\ UNCHANGED <<pc, FileData, exit, UseDbgHelp, StringsBase, StringsCapacity,
                   StringHash, StabSymbols, CoffSymbols, MergedSymbols, merge,
                   RosSymSection, OutFile>>

\* the loop is left: the rows are counted and sorted, or the decoder failed
StabsDone ==
    /\ pc = "ConvertStabs"
    /\ intern.i > Len(FileData.StabEntries) \/ intern.st.Failed
    /\ IF intern.st.Failed
       THEN /\ Exit("1")
            /\ UNCHANGED <<StringsBase, StabSymbols>>
       ELSE /\ pc' = "ConvertCoffs"
            /\ exit' = exit
            /\ StringsBase' = intern.st.Strings
            /\ StabSymbols' \in QSort(intern.st.Rows)
    /\ UNCHANGED <<FileData, UseDbgHelp, StringsCapacity, StringHash, intern,
                   CoffSymbols, MergedSymbols, merge, RosSymSection, OutFile>>

NextStabs == StabsStep \/ StabsDone

SpecStabs == StabsInit /\ [][NextStabs]_vars


-----------------------------------------------------------------------------
(* C14: the address of an N_SLINE record *)

\* the record the decoder has just processed, 0 before the first one
StabsDone_n == intern.i - 1

IsFunctionStart(e, img) ==
    e.n_type = "N_FUN" /\ e.n_desc # 0 /\ e.n_value >= img.ImageBase

\* the last N_FUN record among the first n records, 0 if there is none
LastFun(img, n) ==
    LET S == { k \in 1..n : img.StabEntries[k].n_type = "N_FUN" }
    IN  IF S = {} THEN 0 ELSE CHOOSE k \in S : \A m \in S : m <= k

\* record n lies inside a function: the last N_FUN in front of it starts one
InFunction(img, n) ==
    LastFun(img, n - 1) # 0 /\ IsFunctionStart(img.StabEntries[LastFun(img, n - 1)], img)

\* the start RVA of the function record n lies in
FunctionStartOf(img, n) == img.StabEntries[LastFun(img, n - 1)].n_value - img.ImageBase

\* the address record n has by the rule: function start + n_value inside a
\* function, n_value - image_base outside
LineAddress(img, n) ==
    IF InFunction(img, n)
    THEN Wrap(FunctionStartOf(img, n) + img.StabEntries[n].n_value)
    ELSE Wrap(img.StabEntries[n].n_value - img.ImageBase)

JustProcessed(type) ==
    /\ intern.decoder = "ConvertStabs"
    /\ StabsDone_n >= 1
    /\ FileData.StabEntries[StabsDone_n].n_type = type

\* C14: the row an N_SLINE record was just put in has the address function
\* start + n_value when the record lies inside a function, whatever the start
\* address of the function, and n_value - image_base outside any function.
C14_LineAddress ==
    JustProcessed("N_SLINE")
        => Current(intern.st).Address = LineAddress(FileData, StabsDone_n)

\* a line at offset 1 of the function f was given the address TextVA + 2
C14_Witness ==
    /\ JustProcessed("N_SLINE")
    /\ InFunction(FileData, StabsDone_n)
    /\ FunctionStartOf(FileData, StabsDone_n) = TextVA + 1
    /\ FileData.StabEntries[StabsDone_n].n_value = 1
    /\ Current(intern.st).Address = TextVA + 2


-----------------------------------------------------------------------------
(* C15: the row of an N_SLINE record *)

\* the decoder after the first n records
StabsAfter(img, Before, n) ==
    StabsLoop(StabsStart(<<NUL>>, Before),
              [img EXCEPT !.StabEntries = SubSeq(img.StabEntries, 1, n)], 1)

\* the rows that have received an N_SLINE record so far
LineRows ==
    { Len(StabsAfter(FileData, intern.st.Before, k).Rows) :
        k \in { j \in 1..StabsDone_n : FileData.StabEntries[j].n_type = "N_SLINE" } }

IsAcceptedFile(e, img) ==
    /\ e.n_type \in {"N_SO", "N_SOL", "N_BINCL"}
    /\ e.n_strx <= GetStabInfo(img).StabStringsLength
    /\ StrAt(img.StabStrings, e.n_strx) # <<>>
    /\ LastChar(StrAt(img.StabStrings, e.n_strx)) \notin {"/", "\\"}
    /\ e.n_value >= img.ImageBase

\* the last accepted source file record among the first n, 0 if there is none
LastFile(img, n) ==
    LET S == { k \in 1..n : IsAcceptedFile(img.StabEntries[k], img) }
    IN  IF S = {} THEN 0 ELSE CHOOSE k \in S : \A m \in S : m <= k

LastFunctionStart(img, n) ==
    LET S == { k \in 1..n : IsFunctionStart(img.StabEntries[k], img) }
    IN  IF S = {} THEN 0 ELSE CHOOSE k \in S : \A m \in S : m <= k

RecordName(img, k) == StrAt(img.StabStrings, img.StabEntries[k].n_strx)

FunctionName(img, k) == SubSeq(RecordName(img, k), 1, StrCSpnColon(RecordName(img, k)))

\* the row an N_SLINE record was just put in: its line, file and function
LineRowFields ==
    JustProcessed("N_SLINE") =>
        LET row == Current(intern.st)
            n == StabsDone_n
            file == LastFile(FileData, n)
            func == LastFunctionStart(FileData, n)
        IN  /\ row.SourceLine = FileData.StabEntries[n].n_desc
            /\ file # 0 => StrAt(intern.st.Strings, row.FileOffset) = RecordName(FileData, file)
            /\ IF func = 0 THEN row.FunctionOffset = 0
               ELSE StrAt(intern.st.Strings, row.FunctionOffset) = FunctionName(FileData, func)

SameLineFileFunction(a, b) ==
    /\ a.SourceLine = b.SourceLine
    /\ a.FileOffset = b.FileOffset
    /\ a.FunctionOffset = b.FunctionOffset

\* no round of the loop changes a row that has received an N_SLINE record
LineRowsKept ==
    StabsStep => \A r \in LineRows : SameLineFileFunction(intern'.st.Rows[r], intern.st.Rows[r])

\* a round of the loop changes such a row only while it is the last row and
\* the record is accepted at its address: a line replaces the line, a source
\* file replaces the file, a function start replaces the function and clears
\* the line
LineRowsKeptUntilNextAddress ==
    StabsStep =>
        LET e == FileData.StabEntries[intern.i]
            Rows == intern.st.Rows
            After == intern'.st
        IN  \A r \in LineRows :
              \/ After.Rows[r] = Rows[r]
              \/ /\ r = Len(After.Rows)
                 /\ After.Rows[r].Address = Rows[r].Address
                 /\ CASE e.n_type = "N_SLINE" ->
                           After.Rows[r] = [Rows[r] EXCEPT !.SourceLine = e.n_desc]
                      [] e.n_type = "N_FUN" ->
                           /\ IsFunctionStart(e, FileData)
                           /\ After.Rows[r].SourceLine = 0
                           /\ After.Rows[r].FileOffset = Rows[r].FileOffset
                           /\ StrAt(After.Strings, After.Rows[r].FunctionOffset)
                                = FunctionName(FileData, intern.i)
                      [] OTHER ->
                           /\ IsAcceptedFile(e, FileData)
                           /\ After.Rows[r].SourceLine = Rows[r].SourceLine
                           /\ After.Rows[r].FunctionOffset = Rows[r].FunctionOffset
                           /\ StrAt(After.Strings, After.Rows[r].FileOffset)
                                = RecordName(FileData, intern.i)

\* C15 as stated: the row that receives an N_SLINE record has the line of the
\* record, the file of the most recent accepted source file record and the
\* function of the most recent function start, and no later record changes
\* the file, function or line of that row.
C15_LineRowFinal == [] LineRowFields /\ [][LineRowsKept]_vars

\* C15: the row that receives an N_SLINE record has the line of the record,
\* the file of the most recent accepted source file record and the function of
\* the most recent function start; a later record changes the row only if it
\* is accepted at the address of the row while the row is still the last one,
\* and a row followed by another row never changes.
C15_LineRow == [] LineRowFields /\ [][LineRowsKeptUntilNextAddress]_vars

\* a line row of the function f in a.c that is no longer the last row
C15_Witness ==
    /\ intern.decoder = "ConvertStabs"
    /\ \E r \in LineRows :
         /\ r < Len(intern.st.Rows)
         /\ intern.st.Rows[r].SourceLine # 0
         /\ StrAt(intern.st.Strings, intern.st.Rows[r].FileOffset) = <<"a", ".", "c">>
         /\ StrAt(intern.st.Strings, intern.st.Rows[r].FunctionOffset) = <<"f">>


-----------------------------------------------------------------------------
(* C16: the rows of the COFF decoder *)

\* the records of the COFF table that are symbols: record i is followed by
\* its e_numaux auxiliary records
RECURSIVE CoffSymbolIndices(_, _)
CoffSymbolIndices(img, i) ==
    IF i > Len(img.CoffEntries) THEN {}
    ELSE {i} \cup CoffSymbolIndices(img, i + 1 + img.CoffEntries[i].e_numaux)

\* the symbols that are a function or have storage class C_EXT
CoffFunctions(img) ==
    { i \in CoffSymbolIndices(img, 1) :
        img.CoffEntries[i].isfcn \/ img.CoffEntries[i].e_sclass = "C_EXT" }

IsRowOfCoff(row, e, blob, img) ==
    /\ row.SourceLine = 0
    /\ row.FileOffset = 0
    /\ StrAt(blob, row.FunctionOffset) = Demangle(CoffName(e, img))

\* C16: ConvertCoffs reports one row per symbol record that is a function or
\* external and no other row; every row has line 0, file 0 and the offset of
\* the demangled name, and auxiliary records are not decoded.
C16_CoffRows ==
    pc = "merge" =>
        /\ Len(CoffSymbols) = Cardinality(CoffFunctions(FileData))
        /\ \A k \in 1..Len(CoffSymbols) :
             \E i \in CoffFunctions(FileData) :
               IsRowOfCoff(CoffSymbols[k], FileData.CoffEntries[i], StringsBase, FileData)
        /\ \A i \in CoffFunctions(FileData) :
             \E k \in 1..Len(CoffSymbols) :
               IsRowOfCoff(CoffSymbols[k], FileData.CoffEntries[i], StringsBase, FileData)

\* the decoder has run over a table with an auxiliary record and a function
C16_Witness ==
    /\ pc = "merge"
    /\ CoffFunctions(FileData) # {}
    /\ \E i \in 1..Len(FileData.CoffEntries) : FileData.CoffEntries[i].e_numaux > 0


-----------------------------------------------------------------------------
(* C17: the overrides of the merger *)

\* the rows the pass over the STABS rows emitted: one per address
StabPassLength == Cardinality({ merge.Stab[k].Address : k \in 1..Len(merge.Stab) })

\* the rows the tail pass appended
TailRows == SubSeq(merge.Unsorted, StabPassLength + 1, Len(merge.Unsorted))

\* the COFF rows (by index from 0) whose name was used for an override
Overriding == { merge.Overrides[o].Coff : o \in 1..Len(merge.Overrides) }

Occurrences(rows, row) == Cardinality({ k \in 1..Len(rows) : rows[k] = row })

\* C17: the rows the tail pass appends are rows of COFF records that did not
\* override; no COFF row overrides twice; every override took a COFF row
\* strictly below the address of the merged row and strictly above the
\* remembered start of the STABS function.
C17_Overrides ==
    pc = "merged" =>
        /\ \A t \in 1..Len(TailRows) :
             Occurrences(TailRows, TailRows[t])
               <= Cardinality({ k \in 1..Len(merge.Coff) :
                                  merge.Coff[k] = TailRows[t] /\ (k - 1) \notin Overriding })
        /\ \A o, q \in 1..Len(merge.Overrides) :
             o # q => /\ merge.Overrides[o].Coff # merge.Overrides[q].Coff
                      /\ merge.Overrides[o].Row # merge.Overrides[q].Row
        /\ \A o \in 1..Len(merge.Overrides) :
             LET ov == merge.Overrides[o]
             IN  /\ ov.Address < merge.Unsorted[ov.Row].Address
                 /\ ov.Start < ov.Address
                 /\ merge.Unsorted[ov.Row].FunctionOffset = ov.Name
                 /\ ov.Coff < Len(merge.Coff) =>
                      /\ merge.Coff[ov.Coff + 1].Address = ov.Address
                      /\ merge.Coff[ov.Coff + 1].FunctionOffset = ov.Name

\* a COFF row of the table overrode a merged row and another one was appended
C17_Witness ==
    /\ pc = "merged"
    /\ Len(TailRows) > 0
    /\ \E o \in 1..Len(merge.Overrides) : merge.Overrides[o].Coff < Len(merge.Coff)


-----------------------------------------------------------------------------
(* C18: the tail pass of the merger *)

IsIn(rows, row) == \E m \in 1..Len(rows) : rows[m] = row

\* C18 as stated: every COFF row that is left with a non-zero func_off after
\* the pass over the STABS rows is in the merged table, whatever its address.
C18_EveryNamedCoffRow ==
    pc = "merged" =>
        \A k \in 1..Len(CoffSymbols) :
            CoffSymbols[k].FunctionOffset # 0 => IsIn(MergedSymbols, CoffSymbols[k])

\* C18: when there is at least one STABS row, the tail pass appends, in the
\* order of the COFF table, exactly the COFF rows that are left with a
\* non-zero func_off and a non-zero address; without STABS rows the merged
\* table is empty.
C18_NamedCoffRowsOffZero ==
    pc = "merged" =>
        IF Len(merge.Stab) = 0 THEN MergedSymbols = <<>>
        ELSE /\ TailRows = SelectSeq(CoffSymbols,
                                     LAMBDA c : c.FunctionOffset # 0 /\ c.Address # 0)
             /\ \A t \in 1..Len(TailRows) : IsIn(MergedSymbols, TailRows[t])

\* a COFF row was appended while a named COFF row at address 0 was not
C18_Witness ==
    /\ pc = "merged"
    /\ Len(TailRows) > 0
    /\ \E k \in 1..Len(CoffSymbols) :
         /\ CoffSymbols[k].FunctionOffset # 0
         /\ CoffSymbols[k].Address = 0
         /\ ~IsIn(MergedSymbols, CoffSymbols[k])


-----------------------------------------------------------------------------
(* C19: the choice of the line information source *)

HasStabSection == LastSection(FileData.Sections, DotStab) # 0

\* the STABS decoder is about to run or has run
StabsUsed ==
    \/ pc = "ConvertStabs"
    \/ pc \in {"ConvertCoffs", "merge", "merged", "CreateOutputFile"} /\ ~UseDbgHelp

\* the external iterator is about to be invoked or has been
DbgHelpUsed == pc = "ConvertDbgHelp" \/ UseDbgHelp

\* C19 as stated: the STABS decoder is used exactly when the image has a
\* .stab section, even one of zero bytes, and the external iterator exactly
\* when it has none; never both.
C19_SourceByPresence ==
    /\ ~(StabsUsed /\ DbgHelpUsed)
    /\ StabsUsed => HasStabSection
    /\ DbgHelpUsed => ~HasStabSection

\* C19: the STABS decoder is used exactly when the .stab section has raw data,
\* and the external iterator when there is no .stab section or it has zero
\* bytes; never both.
C19_SourceBySize ==
    /\ ~(StabsUsed /\ DbgHelpUsed)
    /\ StabsUsed => GetStabInfo(FileData).StabSymbolsLength # 0
    /\ DbgHelpUsed => GetStabInfo(FileData).StabSymbolsLength = 0

\* the external iterator delivered the rows of an image with an empty .stab
C19_Witness ==
    /\ UseDbgHelp
    /\ HasStabSection
    /\ StabSymbols # <<>>


-----------------------------------------------------------------------------
(* C20: a callback whose function is not resolved *)

\* the callbacks the iterator has to deliver whose function can be resolved
Resolved == { n \in 1..Len(FileData.Lines) : FileData.Lines[n].SymFound }

IsRowOfLine(row, LineInfo, blob, img) ==
    /\ row.Address = Wrap(LineInfo.Address - img.ModBase)
    /\ row.SourceLine = LineInfo.LineNumber
    /\ StrAt(blob, row.FunctionOffset) = LineInfo.Symbol

\* C20: a callback whose function is not resolved is dropped alone: the rows
\* of the adapter are the rows of all the other callbacks of the module,
\* those before it and those after it.
C20_OnlyThatCallbackDropped ==
    UseDbgHelp =>
        /\ Len(StabSymbols) = Cardinality(Resolved)
        /\ \A n \in Resolved :
             \E k \in 1..Len(StabSymbols) :
               IsRowOfLine(StabSymbols[k], FileData.Lines[n], StringsBase, FileData)

\* the adapter ran on a module whose second line has no function and emitted
\* the row of the first
C20_Witness ==
    /\ UseDbgHelp
    /\ Len(FileData.Lines) >= 2
    /\ 1 \in Resolved
    /\ 2 \notin Resolved
    /\ Len(StabSymbols) = 1


-----------------------------------------------------------------------------
(* C21: the symbol table fields of the output file header *)

\* the output sections that were copied from a section with a "/NN" name
SurvivingLongNames(Sections) ==
    { k \in 1..Len(Sections) :
        Sections[k].From # 0 /\ Sections[k].Name # <<>> /\ Sections[k].Name[1] = "/" }

\* the file offset just past the raw data of all the sections
RECURSIVE RawDataEnd(_)
RawDataEnd(Sections) ==
    IF Sections = <<>> THEN 0
    ELSE LET end == Head(Sections).PointerToRawData + Head(Sections).SizeOfRawData
             rest == RawDataEnd(Tail(Sections))
         IN  IF end > rest THEN end ELSE rest

\* C21: the output file header has NumberOfSymbols = 0; when a surviving
\* section has a "/NN" name, PointerToSymbolTable points just past all the raw
\* data of the output sections (the .rossym section included), otherwise it
\* is 0.
C21_SymbolTablePointer ==
    Written =>
        LET out == OutFile.Out
        IN  /\ out.NumberOfSymbols = 0
            /\ IF SurvivingLongNames(out.Sections) # {}
               THEN out.PointerToSymbolTable = RawDataEnd(out.Sections)
               ELSE out.PointerToSymbolTable = 0

\* an output file whose only "/NN" section was stripped and whose header
\* points at a string table all the same
C21_Witness ==
    /\ Written
    /\ \E k \in 1..Len(FileData.Sections) : FileData.Sections[k].Name = <<"/", "8">>
    /\ SurvivingLongNames(OutFile.Out.Sections) = {}
    /\ OutFile.Out.NumberOfSymbols = 0
    /\ OutFile.Out.PointerToSymbolTable # 0
    /\ OutFile.Out.PointerToSymbolTable = RawDataEnd(OutFile.Out.Sections)


-----------------------------------------------------------------------------
(* C22: headers that point outside the input file *)

\* a section whose raw data reaches beyond the end of the file
SectionOutsideFile(img) ==
    \E k \in 1..Len(img.Sections) :
       BeyondFile(img, img.Sections[k].PointerToRawData, img.Sections[k].SizeOfRawData)

\* a COFF symbol table whose records or string table length word lie outside
\* the file
SymbolTableOutsideFile(img) ==
    /\ img.PointerToSymbolTable # 0
    /\ img.NumberOfSymbols # 0
    /\ BeyondFile(img, img.PointerToSymbolTable, img.NumberOfSymbols * CoffSymentSize + 4)

\* C22: the run ends with exit status 1 and without output whenever the DOS
\* magic is missing, the raw data of a section reaches beyond the end of the
\* input file, or the COFF symbol table lies outside the input file; no run
\* goes on past a read beyond the input buffer.  (An ELF file, which ends the
\* run with exit status 0, is left aside.)
C22_ReaderRejects ==
    LET Rejected == IF FileData.Magic # "MZ" THEN FileData.Magic # "ELF"
                    ELSE \/ SectionOutsideFile(FileData)
                         \/ SymbolTableOutsideFile(FileData)
    IN  /\ (Rejected /\ pc # "start") => (pc = "exit" /\ exit = "1" /\ OutFile = NoFile)
        /\ (Rejected /\ pc = "exit") => (exit = "1" /\ OutFile = NoFile)

\* an output file was written from an input file that ends in front of the
\* raw data of its .text section
C22_Witness ==
    /\ Written
    /\ FileData.Magic = "MZ"
    /\ SectionOutsideFile(FileData)
    /\ \E k \in 1..Len(OutFile.Out.Sections) :
          /\ OutFile.Out.Sections[k].From # 0
          /\ BeyondFile(FileData, OutFile.Out.Sections[k].PointerToRawData,
                        OutFile.Out.Sections[k].SizeOfRawData)


-----------------------------------------------------------------------------
(* C23: the indices the merger reads the COFF rows at *)

\* C23: every index the merger reads the COFF row array at, CoffIndex and
\* CoffIndex + 1, is less than the number of COFF rows.
C23_CoffReadsInside ==
    pc = "merged" => \A i \in merge.Reads : i < Len(merge.Coff)

\* the merger read the row behind the last COFF row, whose address is not
\* above the address of a STABS row
C23_Witness ==
    /\ pc = "merged"
    /\ merge.Coff # <<>>
    /\ Len(merge.Coff) \in merge.Reads
    /\ \E k \in 1..Len(merge.Stab) :
          merge.Coff[Len(merge.Coff)].Address <= merge.Stab[k].Address


-----------------------------------------------------------------------------
(* C24: the row slots the decoders read and write *)

\* the STABS decoder has run on the image and read Current[-1] while
\* Current was the first row of its array
StabsReadBeforeFirstRow ==
    /\ ~UseDbgHelp
    /\ pc \in {"ConvertCoffs", "merge"}
    /\ \E Before \in GarbageFiles : ConvertStabs(FileData, <<NUL>>, Before).ReadBefore

\* the greatest index of a row slot the COFF decoder has written: the slot
\* memset(++Current) zeroed behind the last row, -1 when no record qualified
CoffLastSlotWritten == IF Len(CoffSymbols) > 1 THEN Len(CoffSymbols) - 1 ELSE -1

\* C24: the decoders read and write only the row slots 0 .. record count - 1
\* of their arrays: the STABS decoder reads no row in front of the first one,
\* and the COFF decoder writes no slot at the index that equals the record
\* count.
C24_RowSlotsInside ==
    /\ ~StabsReadBeforeFirstRow
    /\ pc = "merge" => CoffLastSlotWritten < FileData.NumberOfSymbols

\* the decoders have run on an image whose first STABS record is a function
\* start and whose COFF records all qualify
C24_Witness ==
    /\ pc = "merge"
    /\ ~UseDbgHelp
    /\ FileData.StabEntries # <<>>
    /\ FileData.StabEntries[1].n_type = "N_FUN"
    /\ FileData.StabEntries[1].n_desc # 0
    /\ StabsReadBeforeFirstRow
    /\ FileData.NumberOfSymbols = 2
    /\ CoffLastSlotWritten = FileData.NumberOfSymbols


-----------------------------------------------------------------------------
(* C25: the capacity of the string blob on the STABS path *)

\* C25: on the STABS path the string blob never grows beyond the capacity
\* that main allocated for it before the decoders ran.
C25_BlobWithinCapacity ==
    ~UseDbgHelp => Len(StringsBase) <= StringsCapacity

\* both decoders have run on an image whose STABS records name a source file
\* and a function
C25_Witness ==
    /\ pc = "merge"
    /\ ~UseDbgHelp
    /\ \E i \in 1..Len(FileData.StabEntries) : FileData.StabEntries[i].n_type = "N_SO"
    /\ \E i \in 1..Len(FileData.StabEntries) : FileData.StabEntries[i].n_type = "N_FUN"
    /\ StoredAt(StringsBase, <<"a", ".", "c">>) # {}
    /\ StoredAt(StringsBase, <<"f">>) # {}
    /\ Len(StringsBase) > StringsCapacity


-----------------------------------------------------------------------------
(* C26: the number of rows ConvertStabs reports *)

\* the records of the .stab section that are put in a row
AcceptedRecords(img) ==
    { k \in 1..Len(img.StabEntries) :
        \/ IsAcceptedFile(img.StabEntries[k], img)
        \/ IsFunctionStart(img.StabEntries[k], img)
        \/ img.StabEntries[k].n_type = "N_SLINE" }

\* the number of rows the decoder has started: none while First is set
StabRowsStarted(img) ==
    LET r == ConvertStabs(img, <<NUL>>, ZeroRow)
    IN  IF r.First THEN 0 ELSE Len(r.Rows)

\* the STABS decoder has run on a .stab section that is not empty and none
\* of whose records is put in a row
StabsAllIgnored ==
    /\ ~UseDbgHelp
    /\ FileData.Magic = "MZ"
    /\ pc \notin {"start", "ConvertStabs", "ConvertDbgHelp"}
    /\ GetStabInfo(FileData).StabSymbolsLength # 0
    /\ AcceptedRecords(FileData) = {}

\* C26: the number of rows the STABS decoder reports is the number of rows
\* its accepted records started; a non-empty .stab section whose records are
\* all ignored yields no row, no all-zero row in the merged table and no
\* .rossym section.
C26_StabRowsStarted ==
    /\ (~UseDbgHelp /\ pc \in {"ConvertCoffs", "merge"}) =>
          Len(StabSymbols) = StabRowsStarted(FileData)
    /\ StabsAllIgnored =>
          /\ pc \in {"ConvertCoffs", "merge"} => StabSymbols = <<>>
          /\ \A k \in 1..Len(MergedSymbols) : MergedSymbols[k] # ZeroRow
          /\ RosSymSection.Length = 0
          /\ Written => ~HasRosSym(OutFile.Out.Sections)

\* the output file of an image whose only STABS record is ignored has a
\* .rossym section that holds an all-zero row
C26_Witness ==
    /\ StabsAllIgnored
    /\ FileData.StabEntries # <<>>
    /\ Written
    /\ HasRosSym(OutFile.Out.Sections)
    /\ \E k \in 1..Len(RosSymSection.Symbols) : RosSymSection.Symbols[k] = ZeroRow


-----------------------------------------------------------------------------
(* C27: CompareSymEntry as an ordering *)

\* the rows the qsort of the merger has compared
SortedRows == { merge.Unsorted[k] : k \in 1..Len(merge.Unsorted) }

\* C27: the comparator is a consistent ordering of the rows that are sorted:
\* compare(a, b) and compare(b, a) are never both negative or both positive,
\* and compare(a, a) is 0, also for rows of one address with line 0.
C27_ComparatorConsistent ==
    pc = "merged" =>
        \A a, b \in SortedRows :
           /\ ~(CompareSymEntry(a, b) < 0 /\ CompareSymEntry(b, a) < 0)
           /\ ~(CompareSymEntry(a, b) > 0 /\ CompareSymEntry(b, a) > 0)
           /\ CompareSymEntry(a, a) = 0

\* the merger has sorted two different rows of one address that both have
\* line 0, and a row with a line
C27_Witness ==
    /\ pc = "merged"
    /\ \E a, b, c \in SortedRows :
          /\ a # b
          /\ a.Address = b.Address
          /\ a.SourceLine = 0
          /\ b.SourceLine = 0
          /\ c.SourceLine # 0
          /\ CompareSymEntry(a, b) = -1
          /\ CompareSymEntry(b, a) = -1
          /\ CompareSymEntry(a, a) = -1
          /\ CompareSymEntry(c, c) = 0

=============================================================================
